---------------------------- MODULE Spec2Model ----------------------------
(***************************************************************************)
(* Model of the celo encryption engine: the 32-byte metadata codec, the    *)
(* AES-GCM cipher wrapper, and the Encrypter / Decrypter sessions.         *)
(*                                                                         *)
(* Byte slices are sequences of naturals.  A nil slice is the distinguished*)
(* value Nil; B(x) is the content of a slice (nil has no content).         *)
(* argon2 and AES-GCM are library code: they are modelled as ideal         *)
(* primitives (a key is determined by phrase and salt, a tag by key, nonce *)
(* and body), sizes and layout are kept as in the source.                  *)
(***************************************************************************)
EXTENDS Integers, Sequences, FiniteSets, TLC

(***************************************************************************)
(* Bounds of the model.                                                    *)
(***************************************************************************)
\* number of distinct values the random source can return for one read
NumSeeds == 2
\* longest plaintext
MaxPlainLen == 1
\* longest file name and longest configured extension, in characters
MaxNameLen == 3
MaxExtLen == 2
\* the reads a terminal script holds, and the errors an error value wraps
MaxReads == 4
MaxErrDepth == 3

(***************************************************************************)
(* Program constants.                                                      *)
(***************************************************************************)
Aes256BlockSize == 32
SaltSize == 32
NonceSize == 12
Version == 1
MinVersion == 1
MaxVersion == 1
SignatureSize == 32
\* crypto/cipher GCM: standard nonce size and tag size
GcmNonceSize == 12
GcmTagSize == 16

signatureHeader == <<10, 26, 67, 69, 76, 79, 10, 26>>

\* a string is the sequence of its characters
Extension == <<"c", "e", "l", "o">>

\* positions in vsbn (the Go indexes 0..3, plus one: sequences start at 1)
versionIndex == 1
saltSizeIndex == 2
blockSizeIndex == 3
nonceSizeIndex == 4

(***************************************************************************)
(* Byte-slice helpers.                                                     *)
(***************************************************************************)
Nil == <<-1>>

B(x) == IF x = Nil THEN <<>> ELSE x

Min(a, b) == IF a < b THEN a ELSE b

Zeros(n) == [i \in 1..n |-> 0]

Take(s, n) == SubSeq(s, 1, Min(n, Len(s)))

Drop(s, n) == SubSeq(s, Min(n, Len(s)) + 1, Len(s))

\* bytes.Equal: nil and empty are equal
BytesEqual(a, b) == B(a) = B(b)

\* a position-weighted digest of a byte sequence (stands for the mixing the
\* ideal primitives do; changing one byte or the length changes it)
\* the weighted sum of the bytes lo..hi of s, summed by halves
RECURSIVE DigestOf(_, _, _)
DigestOf(s, lo, hi) ==
    IF lo > hi THEN 0
    ELSE IF lo = hi THEN lo * (s[lo] + 1)
    ELSE DigestOf(s, lo, (lo + hi) \div 2) + DigestOf(s, (lo + hi) \div 2 + 1, hi)

Digest(s) == Len(s) + DigestOf(s, 1, Len(s))

(***************************************************************************)
(* Error kinds (errors.Kind); NoErr is a nil error.                        *)
(***************************************************************************)
NoErr == "nil"

\* errors.E(kind, op, err) with err not an *Error: the Kind given is kept
E(kind) == kind

(***************************************************************************)
(* Metadata codec (metadata.go).                                           *)
(***************************************************************************)
NilMetadata == [signature |-> <<>>, vsbn |-> <<>>, reserved |-> <<>>]

newCurrentMetadata ==
    [signature |-> signatureHeader,
     vsbn      |-> <<Version, SaltSize, Aes256BlockSize, NonceSize>>,
     reserved  |-> Zeros(20)]

\* Metadata.Bytes: a zeroed 32-byte buffer, the signature copied to b[0..7]
\* and the four vsbn bytes to b[8..11]; the reserved field is not copied.
MetadataBytes(m) ==
    [i \in 1..SignatureSize |->
        IF i <= Len(m.signature) THEN m.signature[i]
        ELSE IF i = 9  THEN m.vsbn[versionIndex]
        ELSE IF i = 10 THEN m.vsbn[saltSizeIndex]
        ELSE IF i = 11 THEN m.vsbn[blockSizeIndex]
        ELSE IF i = 12 THEN m.vsbn[nonceSizeIndex]
        ELSE 0]

\* a validation that checks the version before the signature
ValidateMetadataVersionFirst(signature, vsbn, reserved) ==
    IF vsbn[versionIndex] < MinVersion \/ vsbn[versionIndex] > MaxVersion
        THEN E("Incompatible")
    ELSE IF signature # signatureHeader THEN E("Signature")
    ELSE IF vsbn[blockSizeIndex] # 16 /\ vsbn[blockSizeIndex] # 32 THEN E("NonceSize")
    ELSE IF vsbn[nonceSizeIndex] > 32 THEN E("NonceSize")
    ELSE NoErr

ValidateMetadata(signature, vsbn, reserved) ==
    IF signature # signatureHeader THEN E("Signature")
    ELSE IF vsbn[versionIndex] < MinVersion \/ vsbn[versionIndex] > MaxVersion
        THEN E("Incompatible")
    ELSE IF vsbn[blockSizeIndex] # 16 /\ vsbn[blockSizeIndex] # 32 THEN E("NonceSize")
    ELSE IF vsbn[nonceSizeIndex] > 32 THEN E("NonceSize")
    ELSE NoErr

(***************************************************************************)
(* Readers and writers.                                                    *)
(*                                                                         *)
(* A source is a byte sequence; ioErr says that the reader reports an I/O  *)
(* error instead of end-of-file once its bytes are used up.                *)
(***************************************************************************)
\* io.ReadFull(r, buf) with len(buf) = size, reading from position pos:
\* n bytes read, the buffer (zero beyond n), and the error.
ReadFull(src, pos, size, ioErr) ==
    LET avail == IF Len(src) > pos THEN Len(src) - pos ELSE 0
        n     == Min(size, avail)
    IN  [n   |-> n,
         buf |-> [i \in 1..size |-> IF i <= n THEN src[pos + i] ELSE 0],
         err |-> IF n = size THEN NoErr
                 ELSE IF ioErr THEN "io"
                 ELSE IF n = 0 THEN "EOF" ELSE "ErrUnexpectedEOF"]

\* ioutil.ReadAll(r): everything left, and the reader's error if it is not EOF
ReadAll(src, pos, ioErr) ==
    [data |-> Drop(src, pos),
     err  |-> IF ioErr THEN "io" ELSE NoErr]

\* w.Write(p) on a writer that holds `sink` and accepts `cap` bytes in all:
\* the bytes accepted, and an error when fewer than len(p) were.
WriterWrite(sink, cap, p) ==
    LET n == Min(Len(p), cap - Len(sink))
    IN  [n    |-> n,
         sink |-> sink \o Take(p, n),
         err  |-> IF n < Len(p) THEN "short write" ELSE NoErr]

\* DecodeMetadata(r): the metadata (NilMetadata on error), the count n the
\* function returns, the error, and pos, the number of bytes actually taken
\* from the reader.  The three `if x, err := io.ReadFull(...)` statements
\* declare their own n, vn and rn: the function's n, vn and rn keep the
\* value 0 they were declared with.
DecodeMetadata(src, ioErr) ==
    LET sig  == ReadFull(src, 0, 8, ioErr)
        vs   == ReadFull(src, 8, 4, ioErr)
        rs   == ReadFull(src, 12, 20, ioErr)
        n0   == 0
        vn   == 0
        rn   == 0
        n1   == n0 + vn
        n2   == n1 + rn
        verr == ValidateMetadata(sig.buf, vs.buf, rs.buf)
    IN  IF sig.err # NoErr
            THEN [m |-> NilMetadata, n |-> sig.n, err |-> E("Metadata"), pos |-> sig.n]
        ELSE IF vs.err # NoErr
            THEN [m |-> NilMetadata, n |-> n0 + vs.n, err |-> E("Metadata"),
                  pos |-> 8 + vs.n]
        ELSE IF rs.err # NoErr
            THEN [m |-> NilMetadata, n |-> n1 + rs.n, err |-> E("Metadata"),
                  pos |-> 12 + rs.n]
        ELSE IF verr # NoErr
            THEN [m |-> NilMetadata, n |-> n2, err |-> verr, pos |-> 32]
        ELSE [m   |-> [signature |-> sig.buf, vsbn |-> vs.buf, reserved |-> rs.buf],
              n   |-> n2,
              err |-> NoErr,
              pos |-> 32]

(***************************************************************************)
(* Key derivation and cipher (phrase.go, cipher.go).                       *)
(***************************************************************************)
\* argon2.IDKey(phrase, salt, 1, 64*1024, 4, blockSize): blockSize bytes that
\* phrase and salt determine
GenerateKey(phrase, salt, blockSize) ==
    [i \in 1..blockSize |->
        IF i = 1 THEN Digest(phrase) ELSE IF i = 2 THEN Digest(B(salt)) ELSE 0]

NilCipher == [blockSize |-> 0, key |-> <<>>]

\* NewCipher: aes.NewCipher accepts keys of 16, 24 or 32 bytes only
NewCipher(blockSize, nonceSize, key) ==
    IF Len(key) \in {16, 24, 32}
        THEN [cipher |-> [blockSize |-> blockSize, key |-> key], err |-> NoErr]
        ELSE [cipher |-> NilCipher, err |-> E("Cipher")]

\* the key stream byte of position i
KeyStream(key, nonce, i) == (key[1] + key[2] + Digest(nonce) + i) % 256

\* the authentication tag of GCM: GcmTagSize bytes that key, nonce and body
\* determine
Tag(key, nonce, body) ==
    [i \in 1..GcmTagSize |->
        IF i = 1 THEN key[1] ELSE IF i = 2 THEN key[2]
        ELSE IF i = 3 THEN Digest(nonce) ELSE IF i = 4 THEN Digest(body) ELSE 0]

\* aead.Seal(nil, nonce, plaintext, nil)
Seal(key, nonce, plaintext) ==
    LET body == [i \in 1..Len(plaintext) |->
                    (plaintext[i] + KeyStream(key, nonce, i)) % 256]
    IN  body \o Tag(key, nonce, body)

\* aead.Open(nil, nonce, ciphertext, nil): the plaintext, or an error when
\* the ciphertext is shorter than a tag or the tag does not authenticate
Open(key, nonce, ciphertext) ==
    LET blen == Len(ciphertext) - GcmTagSize
        body == Take(ciphertext, blen)
    IN  IF blen < 0 \/ Drop(ciphertext, blen) # Tag(key, nonce, body)
            THEN [plaintext |-> Nil, err |-> "message authentication failed"]
            ELSE [plaintext |-> [i \in 1..blen |->
                                    (body[i] + 256 - KeyStream(key, nonce, i)) % 256],
                  err |-> NoErr]

\* The outcome of one read of n bytes from crypto/rand: RngFail, or n bytes.
RngFail == Nil

RandBytes(n, seed) == [i \in 1..n |-> (17 * seed + i) % 256]

Rng(n) == {RngFail} \cup {RandBytes(n, seed) : seed \in 1..NumSeeds}

\* NewSalt(saltSize), rnd the outcome of the read from the random source
NewSalt(saltSize, rnd) ==
    IF rnd = RngFail \/ Len(rnd) < saltSize
        THEN [salt |-> Nil, err |-> E("Salt")]
        ELSE [salt |-> Take(rnd, saltSize), err |-> NoErr]

\* a Cipher.Encrypt that hands back its nonce buffer when the read fails
CipherEncryptReturnsBuffer(c, plaintext, rnd) ==
    IF rnd = RngFail
        THEN [nonce |-> Zeros(GcmNonceSize), ciphertext |-> Nil, err |-> E("Encrypt")]
        ELSE [nonce |-> rnd, ciphertext |-> Seal(c.key, rnd, plaintext), err |-> NoErr]

\* Cipher.Encrypt(plaintext, nil), rnd the outcome of the read of the nonce
CipherEncrypt(c, plaintext, rnd) ==
    IF rnd = RngFail
        THEN [nonce |-> Nil, ciphertext |-> Nil, err |-> E("Encrypt")]
        ELSE [nonce |-> rnd, ciphertext |-> Seal(c.key, rnd, plaintext), err |-> NoErr]

\* a Cipher.Decrypt that drops the error of aead.Open
CipherDecryptDropsError(c, nonce, ciphertext) ==
    [plaintext |-> Open(c.key, B(nonce), B(ciphertext)).plaintext, err |-> NoErr]

\* a Cipher.Decrypt whose error kind tells a failed key from failed data
CipherDecryptKindByCause(c, nonce, ciphertext) ==
    LET o == Open(c.key, B(nonce), B(ciphertext))
        t == IF Len(B(ciphertext)) < GcmTagSize THEN <<>>
             ELSE Drop(B(ciphertext), Len(B(ciphertext)) - GcmTagSize)
    IN  IF o.err = NoErr THEN [plaintext |-> o.plaintext, err |-> NoErr]
        ELSE IF Take(t, 2) = Take(c.key, 2)
            THEN [plaintext |-> Nil, err |-> E("Ciphertext")]
        ELSE [plaintext |-> Nil, err |-> E("Decrypt")]

\* Cipher.Decrypt(nonce, ciphertext)
CipherDecrypt(c, nonce, ciphertext) ==
    LET o == Open(c.key, B(nonce), B(ciphertext))
    IN  IF o.err # NoErr
            THEN [plaintext |-> Nil, err |-> E("Decrypt")]
            ELSE [plaintext |-> o.plaintext, err |-> NoErr]

(***************************************************************************)
(* The session (celo.go): the fields Encrypter and Decrypter share.        *)
(***************************************************************************)
NewEncrypter(preserveKey) ==
    [metadata    |-> newCurrentMetadata,
     blockSize   |-> Aes256BlockSize,
     saltSize    |-> SaltSize,
     nonceSize   |-> NonceSize,
     salt        |-> Nil,
     nonce       |-> Nil,
     ciphertext  |-> Nil,
     cipher      |-> NilCipher,
     ext         |-> Extension,
     preserveKey |-> preserveKey,
     initialized |-> FALSE]

NewDecrypter ==
    [metadata    |-> NilMetadata,
     blockSize   |-> Aes256BlockSize,
     saltSize    |-> SaltSize,
     nonceSize   |-> NonceSize,
     salt        |-> Nil,
     nonce       |-> Nil,
     ciphertext  |-> Nil,
     cipher      |-> NilCipher,
     ext         |-> Extension,
     preserveKey |-> FALSE,
     initialized |-> FALSE]

\* an IsReady that answers true for every session
IsReadyAlways(c) == TRUE

IsReady(c) == c.initialized

\* a Wipe that keeps the cached cipher
WipeKeepsCipher(c) ==
    [c EXCEPT !.nonce = Nil, !.ciphertext = Nil, !.salt = Nil, !.initialized = FALSE]

\* a Wipe that forgets to reset the initialized flag
WipeKeepsInitialized(c) ==
    [c EXCEPT !.nonce = Nil, !.ciphertext = Nil, !.salt = Nil, !.cipher = NilCipher]

Wipe(c) ==
    [c EXCEPT !.nonce = Nil, !.ciphertext = Nil, !.salt = Nil, !.cipher = NilCipher,
              !.initialized = FALSE]

\* SetExtension(ext) applied by Config
SetExtension(c, ext) == [c EXCEPT !.ext = ext]

\* strings.HasPrefix, strings.HasSuffix, strings.TrimSuffix
HasPrefix(s, prefix) ==
    Len(s) >= Len(prefix) /\ SubSeq(s, 1, Len(prefix)) = prefix

HasSuffix(s, suffix) ==
    Len(s) >= Len(suffix) /\ SubSeq(s, Len(s) - Len(suffix) + 1, Len(s)) = suffix

TrimSuffix(s, suffix) ==
    IF HasSuffix(s, suffix) THEN SubSeq(s, 1, Len(s) - Len(suffix)) ELSE s

\* celo.GetEncryptedFileName(f), name the name of f
GetEncryptedFileName(c, name) ==
    IF c.ext = <<>> THEN name
    ELSE LET ext == IF ~HasPrefix(c.ext, <<".">>) THEN <<".">> \o c.ext ELSE c.ext
         IN  name \o ext

\* a GetDecryptedFileName that strips the extension as configured, without
\* making sure of its point
GetDecryptedFileNameBareExt(c, name) ==
    IF c.ext = <<>> THEN name
    ELSE IF HasSuffix(name, c.ext) /\ name # c.ext THEN TrimSuffix(name, c.ext)
    ELSE name

\* a GetDecryptedFileName that also strips a name that is the extension
GetDecryptedFileNameStripsWhole(c, name) ==
    IF c.ext = <<>> THEN name
    ELSE LET ext == IF ~HasPrefix(c.ext, <<".">>) THEN <<".">> \o c.ext ELSE c.ext
         IN  TrimSuffix(name, ext)

\* celo.GetDecryptedFileName(f), name the name of f
GetDecryptedFileName(c, name) ==
    IF c.ext = <<>> THEN name
    ELSE LET ext == IF ~HasPrefix(c.ext, <<".">>) THEN <<".">> \o c.ext ELSE c.ext
         IN  IF HasSuffix(name, ext) /\ name # ext
                 THEN TrimSuffix(name, ext)
                 ELSE name

(***************************************************************************)
(* Encrypter (encrypter.go).                                               *)
(***************************************************************************)
\* an Init that keeps the salt and the cipher a session already holds
EncrypterInitKeepsSalt(e, secretPhrase, rnd) ==
    IF e.initialized /\ e.salt # Nil /\ e.cipher # NilCipher
        THEN [e |-> e, err |-> NoErr, drew |-> FALSE]
    ELSE
        LET s == NewSalt(e.saltSize, rnd)
            c == NewCipher(e.blockSize, e.nonceSize,
                           GenerateKey(secretPhrase, s.salt, e.blockSize))
        IN  IF s.err # NoErr
                THEN [e |-> [e EXCEPT !.initialized = TRUE, !.salt = s.salt],
                      err |-> s.err, drew |-> TRUE]
                ELSE [e |-> [e EXCEPT !.initialized = TRUE, !.salt = s.salt,
                                      !.cipher = c.cipher],
                      err |-> NoErr, drew |-> TRUE]

\* an Init that does not look at the preserveKey flag
EncrypterInitIgnoresPreserveKey(e, secretPhrase, rnd) ==
    LET s == NewSalt(e.saltSize, rnd)
        c == NewCipher(e.blockSize, e.nonceSize,
                       GenerateKey(secretPhrase, s.salt, e.blockSize))
    IN  IF s.err # NoErr
            THEN [e |-> [e EXCEPT !.initialized = TRUE, !.salt = s.salt],
                  err |-> s.err, drew |-> TRUE]
            ELSE [e |-> [e EXCEPT !.initialized = TRUE, !.salt = s.salt,
                                  !.cipher = c.cipher],
                  err |-> NoErr, drew |-> TRUE]

\* Encrypter.Init(secretPhrase), rnd the outcome of the read of the salt;
\* drew says whether the call read from the random source
EncrypterInit(e, secretPhrase, rnd) ==
    IF e.initialized /\ e.preserveKey
        THEN [e |-> e, err |-> NoErr, drew |-> FALSE]
    ELSE
        LET e1 == [e EXCEPT !.initialized = TRUE]
            s  == NewSalt(e.saltSize, rnd)
            e2 == [e1 EXCEPT !.salt = s.salt]
            c  == NewCipher(e.blockSize, e.nonceSize,
                            GenerateKey(secretPhrase, s.salt, e.blockSize))
        IN  IF s.err # NoErr THEN [e |-> e2, err |-> s.err, drew |-> TRUE]
            ELSE IF c.err # NoErr THEN [e |-> e2, err |-> c.err, drew |-> TRUE]
            ELSE [e |-> [e2 EXCEPT !.cipher = c.cipher], err |-> NoErr, drew |-> TRUE]

\* Encrypter.Encrypt(secretPhrase, plaintext); a nil e.cipher makes
\* e.cipher.Encrypt dereference a nil pointer (a run-time panic).
\* nonce is the nonce Cipher.Encrypt returned (<<>> when it was not called);
\* drewSalt and drewNonce say which reads from the random source were made.
EncrypterEncrypt(e, secretPhrase, plaintext, rndSalt, rndNonce) ==
    LET i  == EncrypterInit(e, secretPhrase, rndSalt)
        r  == CipherEncrypt(i.e.cipher, plaintext, rndNonce)
        e1 == [i.e EXCEPT !.ciphertext = r.ciphertext]
    IN  IF i.err # NoErr
            THEN [e |-> i.e, ciphertext |-> Nil, err |-> i.err, nonce |-> <<>>,
                  drewSalt |-> i.drew, drewNonce |-> FALSE]
        ELSE IF i.e.cipher = NilCipher
            THEN [e |-> i.e, ciphertext |-> Nil, err |-> "panic", nonce |-> <<>>,
                  drewSalt |-> i.drew, drewNonce |-> FALSE]
        ELSE IF r.err # NoErr
            THEN [e |-> e1, ciphertext |-> Nil, err |-> r.err, nonce |-> r.nonce,
                  drewSalt |-> i.drew, drewNonce |-> TRUE]
        ELSE [e |-> [e1 EXCEPT !.nonce = r.nonce], ciphertext |-> r.ciphertext,
              err |-> NoErr, nonce |-> r.nonce,
              drewSalt |-> i.drew, drewNonce |-> TRUE]

\* a Write that emits the nonce before the salt
EncrypterWriteNonceFirst(e, cap) ==
    LET w == WriterWrite(<<>>, cap,
                 MetadataBytes(e.metadata) \o B(e.nonce) \o B(e.salt) \o B(e.ciphertext))
    IN  IF ~e.initialized THEN [n |-> 0, err |-> E("NotReady"), sink |-> <<>>]
        ELSE IF w.err # NoErr THEN [n |-> w.n, err |-> E("Encode"), sink |-> w.sink]
        ELSE [n |-> 0, err |-> NoErr, sink |-> w.sink]

\* Encrypter.Write(w), w a writer that accepts cap bytes.  The four
\* `if x, err := w.Write(...)` statements declare their own sn, n, nn and cn:
\* the function's n, sn, nn and cn keep the value 0.
EncrypterWrite(e, cap) ==
    LET w1 == WriterWrite(<<>>, cap, MetadataBytes(e.metadata))
        w2 == WriterWrite(w1.sink, cap, B(e.salt))
        w3 == WriterWrite(w2.sink, cap, B(e.nonce))
        w4 == WriterWrite(w3.sink, cap, B(e.ciphertext))
        sn == 0
        nn == 0
        cn == 0
        n0 == 0
        n1 == n0 + sn
        n2 == n1 + nn
    IN  IF ~IsReady(e) THEN [n |-> 0, err |-> E("NotReady"), sink |-> <<>>]
        ELSE IF w1.err # NoErr THEN [n |-> w1.n, err |-> E("Encode"), sink |-> w1.sink]
        ELSE IF w2.err # NoErr
            THEN [n |-> w2.n + sn, err |-> E("Encode"), sink |-> w2.sink]
        ELSE IF w3.err # NoErr
            THEN [n |-> n1 + w3.n, err |-> E("Encode"), sink |-> w3.sink]
        ELSE IF w4.err # NoErr
            THEN [n |-> n2 + w4.n, err |-> E("Encode"), sink |-> w4.sink]
        ELSE [n |-> n2 + cn, err |-> NoErr, sink |-> w4.sink]

(***************************************************************************)
(* Decrypter (decrypter.go).                                               *)
(***************************************************************************)
\* an Init that assigns the salt and the nonce before it checks their sizes
DecrypterInitAssignsFirst(d, secretPhrase, salt, nonce, ciphertext) ==
    LET d1 == [d EXCEPT !.salt = salt, !.nonce = nonce]
        c  == NewCipher(d.blockSize, d.nonceSize,
                        GenerateKey(secretPhrase, salt, d.blockSize))
    IN  IF Len(B(salt)) # d.saltSize THEN [d |-> d1, err |-> E("SaltSize")]
        ELSE IF Len(B(nonce)) # d.nonceSize THEN [d |-> d1, err |-> E("NonceSize")]
        ELSE IF c.err # NoErr THEN [d |-> d1, err |-> c.err]
        ELSE [d   |-> [d1 EXCEPT !.cipher = c.cipher, !.ciphertext = ciphertext,
                                 !.initialized = TRUE],
              err |-> NoErr]

\* Decrypter.Init(secretPhrase, salt, nonce, ciphertext)
DecrypterInit(d, secretPhrase, salt, nonce, ciphertext) ==
    LET d1 == [d EXCEPT !.salt = salt, !.nonce = nonce]
        c  == NewCipher(d.blockSize, d.nonceSize,
                        GenerateKey(secretPhrase, salt, d.blockSize))
    IN  IF Len(B(salt)) # d.saltSize THEN [d |-> d, err |-> E("SaltSize")]
        ELSE IF Len(B(nonce)) # d.nonceSize THEN [d |-> d, err |-> E("NonceSize")]
        ELSE IF c.err # NoErr THEN [d |-> d1, err |-> c.err]
        ELSE [d   |-> [d1 EXCEPT !.cipher = c.cipher, !.ciphertext = ciphertext,
                                 !.initialized = TRUE],
              err |-> NoErr]

\* Decrypter.initCipher(secretPhrase)
initCipher(d, secretPhrase) ==
    LET c == NewCipher(d.blockSize, d.nonceSize,
                       GenerateKey(secretPhrase, d.salt, d.blockSize))
    IN  IF c.err # NoErr THEN [d |-> d, err |-> c.err]
        ELSE [d |-> [d EXCEPT !.cipher = c.cipher], err |-> NoErr]

\* a Decrypt that keeps the plaintext it recovered in the session
DecrypterDecryptKeepsPlaintext(d, secretPhrase) ==
    LET i  == IF d.cipher = NilCipher THEN initCipher(d, secretPhrase)
              ELSE [d |-> d, err |-> NoErr]
        r  == CipherDecrypt(i.d.cipher, i.d.nonce, i.d.ciphertext)
        dv == d.cipher = NilCipher
    IN  IF ~IsReady(d)
            THEN [d |-> d, plaintext |-> Nil, err |-> E("NotReady"), derived |-> FALSE]
        ELSE IF i.err # NoErr
            THEN [d |-> i.d, plaintext |-> Nil, err |-> i.err, derived |-> dv]
        ELSE IF r.err # NoErr
            THEN [d |-> i.d, plaintext |-> Nil, err |-> r.err, derived |-> dv]
        ELSE [d |-> [i.d EXCEPT !.ciphertext = r.plaintext],
              plaintext |-> r.plaintext, err |-> NoErr, derived |-> dv]

\* Decrypter.Decrypt(secretPhrase); derived says whether a key was derived
DecrypterDecrypt(d, secretPhrase) ==
    LET i  == IF d.cipher = NilCipher THEN initCipher(d, secretPhrase)
              ELSE [d |-> d, err |-> NoErr]
        r  == CipherDecrypt(i.d.cipher, i.d.nonce, i.d.ciphertext)
        dv == d.cipher = NilCipher
    IN  IF ~IsReady(d)
            THEN [d |-> d, plaintext |-> Nil, err |-> E("NotReady"), derived |-> FALSE]
        ELSE IF i.err # NoErr
            THEN [d |-> i.d, plaintext |-> Nil, err |-> i.err, derived |-> dv]
        ELSE IF r.err # NoErr
            THEN [d |-> i.d, plaintext |-> Nil, err |-> r.err, derived |-> dv]
        ELSE [d |-> i.d, plaintext |-> r.plaintext, err |-> NoErr, derived |-> dv]

\* a Read that keeps the cached cipher whatever salt it reads
DecrypterReadKeepsCipher(d, src, ioErr) ==
    LET md == DecodeMetadata(src, ioErr)
        d1 == [d EXCEPT !.metadata = md.m]
        rs == ReadFull(src, 32, d.saltSize, ioErr)
        d2 == [d1 EXCEPT !.salt = rs.buf]
        rn == ReadFull(src, 32 + d.saltSize, d.nonceSize, ioErr)
        d3 == [d2 EXCEPT !.nonce = rn.buf]
        ra == ReadAll(src, 32 + d.saltSize + d.nonceSize, ioErr)
        d4 == [d3 EXCEPT !.ciphertext = ra.data]
    IN  IF md.err # NoErr
            THEN [d |-> d, n |-> md.n, err |-> md.err, pos |-> md.pos]
        ELSE IF rs.err # NoErr
            THEN [d |-> d1, n |-> md.n + rs.n, err |-> E("Salt"), pos |-> 32 + rs.n]
        ELSE IF rn.err # NoErr
            THEN [d |-> d3, n |-> md.n + rn.n, err |-> E("Nonce"),
                  pos |-> 32 + d.saltSize + rn.n]
        ELSE IF ra.err # NoErr
            THEN [d |-> d4, n |-> Len(ra.data), err |-> E("Ciphertext"),
                  pos |-> Len(src)]
        ELSE [d |-> [d4 EXCEPT !.initialized = TRUE], n |-> Len(ra.data),
              err |-> NoErr, pos |-> Len(src)]

\* Decrypter.Read(r): the session after the call, the count n returned, the
\* error, and pos, the number of bytes actually taken from the reader.  As in
\* DecodeMetadata, `if sn, err := ...` and `if nn, err := ...` declare their
\* own sn and nn: the function's sn and nn keep the value 0.
DecrypterRead(d, src, ioErr) ==
    LET md   == DecodeMetadata(src, ioErr)
        d1   == [d EXCEPT !.metadata = md.m]
        rs   == ReadFull(src, 32, d.saltSize, ioErr)
        sn   == 0
        nn   == 0
        n1   == md.n + sn
        d2   == IF d1.salt = Nil \/ ~BytesEqual(rs.buf, d1.salt)
                    THEN [d1 EXCEPT !.salt = rs.buf, !.cipher = NilCipher]
                    ELSE d1
        rn   == ReadFull(src, 32 + d.saltSize, d.nonceSize, ioErr)
        d3   == [d2 EXCEPT !.nonce = rn.buf]
        n2   == n1 + nn
        ra   == ReadAll(src, 32 + d.saltSize + d.nonceSize, ioErr)
        d4   == [d3 EXCEPT !.ciphertext = ra.data]
        n3   == n2 + Len(ra.data)
    IN  IF md.err # NoErr
            THEN [d |-> d, n |-> md.n, err |-> md.err, pos |-> md.pos]
        ELSE IF rs.err # NoErr
            THEN [d |-> d1, n |-> md.n + rs.n, err |-> E("Salt"), pos |-> 32 + rs.n]
        ELSE IF rn.err # NoErr
            THEN [d |-> d3, n |-> n1 + rn.n, err |-> E("Nonce"),
                  pos |-> 32 + d.saltSize + rn.n]
        ELSE IF ra.err # NoErr
            THEN [d |-> d4, n |-> n3, err |-> E("Ciphertext"), pos |-> Len(src)]
        ELSE [d |-> [d4 EXCEPT !.initialized = TRUE], n |-> n3, err |-> NoErr,
              pos |-> Len(src)]

(***************************************************************************)
(* Errors (errors.go).  An error value is the chain of errors it wraps,    *)
(* from the outermost to the innermost: <<>> is nil, a link whose Text is  *)
(* not "" is an error of another type (an *os.PathError, an errorString),  *)
(* every other link is an *Error.  An unset Entity is <<>>, an unset Op is *)
(* "", an unset Kind is Other.                                             *)
(***************************************************************************)
Other == "Other"

\* &Error{Entity: entity, Op: op, Kind: kind}
Error(entity, op, kind) ==
    [Entity |-> entity, Op |-> op, Kind |-> kind, Text |-> ""]

\* errors.Errorf(text)
Errorf(text) == <<[Entity |-> <<>>, Op |-> "", Kind |-> Other, Text |-> text]>>

\* err.(*Error) succeeds
IsError(err) == err # <<>> /\ Head(err).Text = ""

\* an errors.E that links the *Error it is given instead of a copy of it
ErrorsEAliasesArgument(entity, op, kind, err) ==
    LET e0 == Error(entity, op, kind)
    IN  IF ~IsError(err) THEN [out |-> <<e0>> \o err, arg |-> err]
        ELSE
            LET prev == Head(err)
                p1   == IF prev.Entity = e0.Entity
                            THEN [prev EXCEPT !.Entity = <<>>] ELSE prev
                p2   == IF p1.Kind = e0.Kind THEN [p1 EXCEPT !.Kind = Other] ELSE p1
                pull == e0.Kind = Other
                e1   == IF pull THEN [e0 EXCEPT !.Kind = p2.Kind] ELSE e0
                p3   == IF pull THEN [p2 EXCEPT !.Kind = Other] ELSE p2
            IN  [out |-> <<e1, p3>> \o Tail(err), arg |-> <<p3>> \o Tail(err)]

\* errors.E(entity, op, kind, err), an argument left out being <<>>, "",
\* Other or <<>>.  out is the error returned; arg is the value of err (of
\* the *Error the caller passed) once the call has returned.
ErrorsE(entity, op, kind, err) ==
    LET e0 == Error(entity, op, kind)
    IN  IF ~IsError(err) THEN [out |-> <<e0>> \o err, arg |-> err]
        ELSE
            LET copy == Head(err)
                p1   == IF copy.Entity = e0.Entity
                            THEN [copy EXCEPT !.Entity = <<>>] ELSE copy
                p2   == IF p1.Kind = e0.Kind THEN [p1 EXCEPT !.Kind = Other] ELSE p1
                pull == e0.Kind = Other
                e1   == IF pull THEN [e0 EXCEPT !.Kind = p2.Kind] ELSE e0
                p3   == IF pull THEN [p2 EXCEPT !.Kind = Other] ELSE p2
            IN  [out |-> <<e1, p3>> \o Tail(err), arg |-> err]

\* errors.Is(kind, err)
RECURSIVE ErrorsIs(_, _)
ErrorsIs(kind, err) ==
    IF ~IsError(err) THEN FALSE
    ELSE IF Head(err).Kind # Other THEN Head(err).Kind = kind
    ELSE IF Tail(err) # <<>> THEN ErrorsIs(kind, Tail(err))
    ELSE FALSE

\* the error values behind the kinds the session calls fail with: each is
\* built by the function that met the failure, under its own Op
\* Encrypter.Encrypt returns what NewSalt, NewCipher or Cipher.Encrypt built
EncryptError(kind) ==
    ErrorsE(<<>>,
            CASE kind = "Salt"   -> "phrase.NewSalt"
              [] kind = "Cipher" -> "cipher.NewCipher"
              [] OTHER           -> "cipher.Encrypt",
            kind, Errorf("cause")).out

\* an Encrypter.Write whose errors name no operation
WriteErrorNoOp(kind) ==
    ErrorsE(<<>>, "", kind, IF kind = "NotReady" THEN <<>> ELSE Errorf("cause")).out

\* Encrypter.Write builds its errors itself
WriteError(kind) ==
    ErrorsE(<<>>, "encrypter.Write", kind,
            IF kind = "NotReady" THEN <<>> ELSE Errorf("cause")).out

\* Decrypter.Read returns what DecodeMetadata or ValidateMetadata built, or
\* builds the error itself
ReadError(kind) ==
    ErrorsE(<<>>,
            CASE kind = "Metadata" -> "metadata.DecodeMetadata"
              [] kind \in {"Salt", "Nonce", "Ciphertext"} -> "decrypter.Read"
              [] OTHER -> "metadata.ValidateMetadata",
            kind,
            IF kind \in {"Metadata", "Salt", "Nonce", "Ciphertext"}
                THEN Errorf("cause") ELSE <<>>).out

\* Decrypter.Decrypt builds NotReady, and returns what NewCipher or
\* Cipher.Decrypt built
DecryptError(kind) ==
    ErrorsE(<<>>,
            CASE kind = "NotReady" -> "decrypter.Decrypt"
              [] kind = "Cipher"   -> "cipher.NewCipher"
              [] OTHER             -> "cipher.Decrypt",
            kind,
            IF kind = "NotReady" THEN <<>> ELSE Errorf("cause")).out

(***************************************************************************)
(* The file system, and package file (file/file.go).  A path names nothing *)
(* ("none"), a regular file, a regular file that cannot be opened for      *)
(* writing ("readonly"), a directory, or something os.Stat fails on: for   *)
(* lack of permission ("denied") or for another reason ("fault").          *)
(***************************************************************************)
Entry(kind, data) == [kind |-> kind, data |-> data]

\* os.Stat(name)
Stat(fs, name) ==
    [err   |-> CASE fs[name].kind = "none"   -> "NotExist"
                 [] fs[name].kind = "denied" -> "Permission"
                 [] fs[name].kind = "fault"  -> "Other"
                 [] OTHER                    -> NoErr,
     isDir |-> fs[name].kind = "dir"]

\* os.Open(name): the error, if any
OsOpen(fs, name) ==
    IF fs[name].kind \in {"none", "denied", "fault"} THEN "open" ELSE NoErr

\* os.Create(name): the file is created, or truncated if it is there
OsCreate(fs, name) ==
    IF fs[name].kind \in {"none", "file"}
        THEN [fs |-> [fs EXCEPT ![name] = Entry("file", <<>>)], err |-> NoErr]
        ELSE [fs |-> fs, err |-> "create"]

\* os.Remove(name), its error dropped
OsRemove(fs, name) ==
    IF fs[name].kind \in {"file", "readonly", "dir"}
        THEN [fs EXCEPT ![name] = Entry("none", <<>>)]
        ELSE fs

\* a Create that looks at overwrite before it looks at what the name is
FileCreateOverwriteFirst(fs, name, overwrite) ==
    LET op    == "file.Create"
        st    == Stat(fs, name)
        exist == st.err # NoErr /\ st.err # "NotExist"
        c     == OsCreate(fs, name)
        fail(kind, cause) ==
            [fs |-> fs, ok |-> FALSE, exist |-> exist,
             err |-> ErrorsE(<<>>, op, kind, cause).out]
    IN  IF st.err = "NotExist"
            THEN [fs |-> c.fs, ok |-> TRUE, exist |-> exist, err |-> <<>>]
        ELSE IF st.err # NoErr THEN fail("Permissions", Errorf("stat"))
        ELSE IF ~overwrite THEN fail("Exist", <<>>)
        ELSE IF st.isDir THEN fail("IsDir", <<>>)
        ELSE IF c.err # NoErr THEN fail("Create", Errorf("create"))
        ELSE [fs |-> c.fs, ok |-> TRUE, exist |-> exist, err |-> <<>>]

\* a Create whose exist says that the name was free
FileCreateExistWhenFree(fs, name, overwrite) ==
    LET op    == "file.Create"
        st    == Stat(fs, name)
        exist == st.err = "NotExist"
        c     == OsCreate(fs, name)
        fail(kind, cause) ==
            [fs |-> fs, ok |-> FALSE, exist |-> exist,
             err |-> ErrorsE(<<>>, op, kind, cause).out]
    IN  IF st.err = "NotExist"
            THEN [fs |-> c.fs, ok |-> TRUE, exist |-> exist, err |-> <<>>]
        ELSE IF st.err # NoErr THEN fail("Permissions", Errorf("stat"))
        ELSE IF st.isDir THEN fail("IsDir", <<>>)
        ELSE IF ~overwrite THEN fail("Exist", <<>>)
        ELSE IF c.err # NoErr THEN fail("Create", Errorf("create"))
        ELSE [fs |-> c.fs, ok |-> TRUE, exist |-> exist, err |-> <<>>]

\* file.Create(name, overwrite): the file system after the call, whether a
\* file was returned, exist, and the error
FileCreate(fs, name, overwrite) ==
    LET op    == "file.Create"
        st    == Stat(fs, name)
        exist == st.err # NoErr /\ st.err # "NotExist"
        c     == OsCreate(fs, name)
        fail(kind, cause) ==
            [fs |-> fs, ok |-> FALSE, exist |-> exist,
             err |-> ErrorsE(<<>>, op, kind, cause).out]
    IN  IF st.err = "NotExist"
            THEN IF c.err # NoErr THEN fail("Create", Errorf("create"))
                 ELSE [fs |-> c.fs, ok |-> TRUE, exist |-> exist, err |-> <<>>]
        ELSE IF st.err = "Permission" THEN fail("Permissions", Errorf("stat"))
        ELSE IF st.err # NoErr THEN fail("Permissions", Errorf("stat"))
        ELSE IF st.isDir THEN fail("IsDir", <<>>)
        ELSE IF ~overwrite THEN fail("Exist", <<>>)
        ELSE IF c.err # NoErr THEN fail("Create", Errorf("create"))
        ELSE [fs |-> c.fs, ok |-> TRUE, exist |-> exist, err |-> <<>>]

\* filepath.Match(pattern, name) for a pattern of characters and "*"
RECURSIVE PathMatch(_, _)
PathMatch(pattern, name) ==
    IF pattern = <<>> THEN name = <<>>
    ELSE IF Head(pattern) = "*"
        THEN \/ PathMatch(Tail(pattern), name)
             \/ name # <<>> /\ Head(name) # "/" /\ PathMatch(pattern, Tail(name))
    ELSE name # <<>> /\ Head(name) = Head(pattern)
         /\ PathMatch(Tail(pattern), Tail(name))

\* strings.Contains(s, c) for one character c
Contains(s, c) == \E i \in 1..Len(s) : s[i] = c

\* name[lastSep+1:], name itself when it holds no separator
RECURSIVE AfterLastSep(_)
AfterLastSep(name) ==
    IF ~Contains(name, "/") THEN name ELSE AfterLastSep(Tail(name))

\* file.Match(pattern, name)
FileMatch(pattern, name) ==
    IF ~Contains(pattern, "/") THEN PathMatch(pattern, AfterLastSep(name))
    ELSE PathMatch(pattern, name)

\* skipIgnored(pattern)(file)
skipIgnored(pattern, file) == ~FileMatch(pattern, file)

\* isFile(file)
isFile(fs, file) == Stat(fs, file).err = NoErr /\ ~Stat(fs, file).isDir

\* filepath.Glob(pattern) in a directory that lists the paths of `order`:
\* a pattern without "*" is looked up, any other is matched with every entry
FilepathGlob(fs, order, pattern) ==
    IF ~Contains(pattern, "*")
        THEN IF pattern \in DOMAIN fs /\ Stat(fs, pattern).err = NoErr
                 THEN <<pattern>> ELSE <<>>
        ELSE SelectSeq(order, LAMBDA p : fs[p].kind # "none" /\ PathMatch(pattern, p))

\* file.Glob(pattern, ignorePattern)
FileGlob(fs, order, pattern, ignorePattern) ==
    LET f  == FilepathGlob(fs, order, pattern)
        f1 == SelectSeq(f, LAMBDA p : skipIgnored(ignorePattern, p))
        f2 == SelectSeq(f1, LAMBDA p : isFile(fs, p))
    IN  IF ignorePattern # <<>> THEN f2 ELSE f

(***************************************************************************)
(* Reading the phrase (phrase.go).  The terminal is a script: what each    *)
(* read from it returns, Nil for a read that fails;   a read past the   *)
(* end of the script fails (end of input).                                 *)
(***************************************************************************)
\* ReadPhrase(printLabel), the pos-th read from the terminal
ReadPhrase(script, pos) ==
    IF pos > Len(script) \/ script[pos] = Nil
        THEN [phrase |-> Nil, err |-> E("PhraseOther")]
        ELSE [phrase |-> script[pos], err |-> NoErr]

\* the loop of ReadAndConfirmPhrase from its i-th turn on, pos the next read;
\* tries counts the turns begun, reads the reads made
RECURSIVE ConfirmLoop(_, _, _, _)
ConfirmLoop(retries, script, i, pos) ==
    IF ~(retries = 0 \/ i <= retries)
        THEN [phrase |-> Nil, err |-> E("PhraseMismatch"), tries |-> i - 1,
              reads |-> pos - 1]
    ELSE
        LET first  == ReadPhrase(script, pos)
            second == ReadPhrase(script, pos + 1)
        IN  IF first.err # NoErr
                THEN [phrase |-> Nil, err |-> E("PhraseOther"), tries |-> i,
                      reads |-> pos]
            ELSE IF Len(first.phrase) = 0
                THEN IF i < retries
                         THEN ConfirmLoop(retries, script, i + 1, pos + 1)
                         ELSE [phrase |-> Nil, err |-> E("PhraseIsEmpty"),
                               tries |-> i, reads |-> pos]
            ELSE IF second.err # NoErr
                THEN [phrase |-> Nil, err |-> E("PhraseOther"), tries |-> i,
                      reads |-> pos + 1]
            ELSE IF first.phrase = second.phrase
                THEN [phrase |-> first.phrase, err |-> NoErr, tries |-> i,
                      reads |-> pos + 1]
            ELSE [phrase |-> Nil, err |-> E("PhraseMismatch"), tries |-> i,
                  reads |-> pos + 1]

\* a ReadAndConfirmPhrase whose loop takes one turn more than retries
ReadAndConfirmPhraseOneMore(retries, script) ==
    ConfirmLoop(retries + 1, script, 1, 1)

\* ReadAndConfirmPhrase(retries)
ReadAndConfirmPhrase(retries, script) == ConfirmLoop(retries, script, 1, 1)

(***************************************************************************)
(* What the commands print (cmd/celo/format.go): a text is the sequence of *)
(* its pieces, a file name the sequence of its characters.                 *)
(***************************************************************************)
\* "  " + m + "\n" for every m
RECURSIVE Listing(_)
Listing(names) ==
    IF names = <<>> THEN <<>>
    ELSE <<"  ">> \o Head(names) \o <<"\n">> \o Listing(Tail(names))

formatGlobMatches(matches) ==
    LET totalMatches == <<ToString(Len(matches)), " file(s) matching criteria\n">>
    IN  IF Len(matches) = 0 THEN totalMatches
        ELSE totalMatches \o Listing(matches)

formatEncryptedFiles(encrypted, errors) ==
    LET summary == <<ToString(Len(encrypted)), " file(s) encrypted. (",
                     ToString(Len(errors)), " failed)\n">>
    IN  IF Len(encrypted) = 0 THEN summary
        ELSE summary \o <<"\nEncrypted Files:\n">> \o Listing(encrypted)

formatDecryptedFiles(encrypted, errors) ==
    LET summary == <<ToString(Len(encrypted)), " file(s) decrypted. (",
                     ToString(Len(errors)), " failed)\n">>
    IN  IF Len(encrypted) = 0 THEN summary
        ELSE summary \o <<"\nDecrypted Files:\n">> \o Listing(encrypted)

(***************************************************************************)
(* Whole files (encrypter.go, decrypter.go).  env holds what the outside   *)
(* does during one call: rs and rn, the reads of the salt and of the nonce *)
(* from the random source; cap, the number of bytes the target file takes  *)
(* before a write to it fails; ioErr, whether reading the source ends in   *)
(* an I/O error.  steps lists the steps the call ran, failed names the one *)
(* that failed, target is the name of the file the call made or truncated. *)
(* With(call, LAMBDA x : rest) is the code's `x, err := call; rest`: the   *)
(* call is made once and the rest works on what it returned.               *)
(***************************************************************************)
\* Encrypter.EncryptFile(secretPhrase, name, overwrite, removeSource)
EncrypterEncryptFile(e, fs, secretPhrase, name, overwrite, removeSource, env) ==
    LET op == "encrypter.EncryptFile"
        With(v, F(_)) == CHOOSE x \in {F(r) : r \in {v}} : TRUE
        stop(e1, fs1, err, steps, failed, target) ==
            [e |-> e1, fs |-> fs1, name |-> <<>>, err |-> err, steps |-> steps,
             failed |-> failed, target |-> target]
    IN  IF OsOpen(fs, name) # NoErr
            THEN stop(e, fs, ErrorsE(<<>>, op, "Open", Errorf("open")).out,
                      <<"Open">>, "Open", <<>>)
        ELSE
        With(ReadAll(fs[name].data, 0, env.ioErr \/ fs[name].kind = "dir"),
             LAMBDA rd :
        IF rd.err # NoErr
            THEN stop(e, fs, ErrorsE(<<>>, op, "Plaintext", Errorf("read")).out,
                      <<"Open", "ReadAll">>, "ReadAll", <<>>)
        ELSE
        With(EncrypterEncrypt(e, secretPhrase, rd.data, env.rs, env.rn), LAMBDA en :
        IF en.err # NoErr
            THEN stop(en.e, fs, EncryptError(en.err),
                      <<"Open", "ReadAll", "Encrypt">>, "Encrypt", <<>>)
        ELSE
        With(GetEncryptedFileName(en.e, name), LAMBDA encryptedName :
        With(FileCreate(fs, encryptedName, overwrite), LAMBDA cr :
        IF cr.err # <<>>
            THEN stop(en.e, cr.fs, cr.err,
                      <<"Open", "ReadAll", "Encrypt", "Create">>, "Create", <<>>)
        ELSE
        With(EncrypterWrite(en.e, env.cap), LAMBDA w :
        With([cr.fs EXCEPT ![encryptedName] = Entry("file", w.sink)], LAMBDA fsw :
        IF w.err # NoErr
            THEN IF ~cr.exist
                     THEN stop(en.e, OsRemove(fsw, encryptedName), WriteError(w.err),
                               <<"Open", "ReadAll", "Encrypt", "Create", "Write",
                                 "RemoveTarget">>, "Write", encryptedName)
                     ELSE stop(en.e, fsw, WriteError(w.err),
                               <<"Open", "ReadAll", "Encrypt", "Create", "Write">>,
                               "Write", encryptedName)
        ELSE IF removeSource
            THEN [e |-> en.e, fs |-> OsRemove(fsw, name), name |-> encryptedName,
                  err |-> <<>>,
                  steps |-> <<"Open", "ReadAll", "Encrypt", "Create", "Write",
                              "RemoveSource">>,
                  failed |-> "", target |-> encryptedName]
        ELSE [e |-> en.e, fs |-> fsw, name |-> encryptedName, err |-> <<>>,
              steps |-> <<"Open", "ReadAll", "Encrypt", "Create", "Write">>,
              failed |-> "", target |-> encryptedName]))))))

\* the loop of EncryptMultipleFiles from its i-th item on; runs counts the
\* calls of EncryptFile
RECURSIVE EncryptLoop(_, _, _, _, _, _, _)
EncryptLoop(acc, secretPhrase, fileNames, overwrite, removeSource, envs, i) ==
    LET With(v, F(_)) == CHOOSE x \in {F(r) : r \in {v}} : TRUE
    IN  IF i > Len(fileNames) THEN acc
        ELSE
        With(EncrypterEncryptFile(acc.e, acc.fs, secretPhrase, fileNames[i],
                                  overwrite, removeSource, envs[i]), LAMBDA r :
        With([e     |-> r.e,
              fs    |-> r.fs,
              names |-> IF r.err = <<>> THEN Append(acc.names, r.name)
                        ELSE acc.names,
              errs  |-> IF r.err # <<>>
                            THEN Append(acc.errs,
                                     ErrorsE(fileNames[i],
                                             "encrypter.EncryptMultipleFiles",
                                             "Encrypt", r.err).out)
                            ELSE acc.errs,
              runs  |-> acc.runs + 1], LAMBDA next :
        EncryptLoop(next, secretPhrase, fileNames, overwrite, removeSource, envs,
                    i + 1)))

\* an EncryptMultipleFiles that gives up at the first item that fails
EncrypterEncryptMultipleFilesStopsAtError(e, fs, secretPhrase, fileNames, overwrite, removeSource, envs) ==
    LET acc == [e |-> e, fs |-> fs, names |-> <<>>, errs |-> <<>>, runs |-> 0]
        fails(k) == EncryptLoop(acc, secretPhrase, SubSeq(fileNames, 1, k),
                                overwrite, removeSource, envs, 1).errs # <<>>
        ks == {k \in 1..Len(fileNames) : fails(k)}
        upTo == IF ks = {} THEN Len(fileNames)
                ELSE CHOOSE k \in ks : \A j \in ks : k <= j
    IN  EncryptLoop(acc, secretPhrase, SubSeq(fileNames, 1, upTo),
                    overwrite, removeSource, envs, 1)

\* Encrypter.EncryptMultipleFiles(secretPhrase, fileNames, overwrite,
\* removeSource), envs[i] the env of the i-th item
EncrypterEncryptMultipleFiles(e, fs, secretPhrase, fileNames, overwrite, removeSource, envs) ==
    EncryptLoop([e |-> e, fs |-> fs, names |-> <<>>, errs |-> <<>>, runs |-> 0],
                secretPhrase, fileNames, overwrite, removeSource, envs, 1)

\* Decrypter.DecryptFile(secretPhrase, name, overwrite, removeSource)
DecrypterDecryptFile(d, fs, secretPhrase, name, overwrite, removeSource, env) ==
    LET op == "decrypter.DecryptFile"
        With(v, F(_)) == CHOOSE x \in {F(r) : r \in {v}} : TRUE
        stop(d1, fs1, err, steps, failed, target) ==
            [d |-> d1, fs |-> fs1, name |-> <<>>, err |-> err, steps |-> steps,
             failed |-> failed, target |-> target]
    IN  IF OsOpen(fs, name) # NoErr
            THEN stop(d, fs, ErrorsE(<<>>, op, "Open", Errorf("open")).out,
                      <<"Open">>, "Open", <<>>)
        ELSE
        With(DecrypterRead(d, fs[name].data, env.ioErr \/ fs[name].kind = "dir"),
             LAMBDA rd :
        IF rd.err # NoErr
            THEN stop(rd.d, fs, ReadError(rd.err), <<"Open", "Read">>, "Read", <<>>)
        ELSE
        With(DecrypterDecrypt(rd.d, secretPhrase), LAMBDA de :
        IF de.err # NoErr
            THEN stop(de.d, fs, DecryptError(de.err),
                      <<"Open", "Read", "Decrypt">>, "Decrypt", <<>>)
        ELSE
        With(GetDecryptedFileName(de.d, name), LAMBDA decryptedFileName :
        With(FileCreate(fs, decryptedFileName, overwrite), LAMBDA cr :
        IF cr.err # <<>>
            THEN stop(de.d, cr.fs, cr.err,
                      <<"Open", "Read", "Decrypt", "Create">>, "Create", <<>>)
        ELSE
        With(WriterWrite(<<>>, env.cap, B(de.plaintext)), LAMBDA w :
        With([cr.fs EXCEPT ![decryptedFileName] = Entry("file", w.sink)], LAMBDA fsw :
        IF w.err # NoErr
            THEN IF ~cr.exist
                     THEN stop(de.d, OsRemove(fsw, decryptedFileName),
                               ErrorsE(<<>>, op, "Create", Errorf("write")).out,
                               <<"Open", "Read", "Decrypt", "Create", "Write",
                                 "RemoveTarget">>, "Write", decryptedFileName)
                     ELSE stop(de.d, fsw,
                               ErrorsE(<<>>, op, "Create", Errorf("write")).out,
                               <<"Open", "Read", "Decrypt", "Create", "Write">>,
                               "Write", decryptedFileName)
        ELSE IF removeSource
            THEN [d |-> de.d, fs |-> OsRemove(fsw, name), name |-> decryptedFileName,
                  err |-> <<>>,
                  steps |-> <<"Open", "Read", "Decrypt", "Create", "Write",
                              "RemoveSource">>,
                  failed |-> "", target |-> decryptedFileName]
        ELSE [d |-> de.d, fs |-> fsw, name |-> decryptedFileName, err |-> <<>>,
              steps |-> <<"Open", "Read", "Decrypt", "Create", "Write">>,
              failed |-> "", target |-> decryptedFileName]))))))

\* the loop of DecryptMultipleFiles from its i-th item on
RECURSIVE DecryptLoop(_, _, _, _, _, _, _)
DecryptLoop(acc, secretPhrase, fileNames, overwrite, removeSource, envs, i) ==
    LET With(v, F(_)) == CHOOSE x \in {F(r) : r \in {v}} : TRUE
    IN  IF i > Len(fileNames) THEN acc
        ELSE
        With(DecrypterDecryptFile(acc.d, acc.fs, secretPhrase, fileNames[i],
                                  overwrite, removeSource, envs[i]), LAMBDA r :
        With([d     |-> r.d,
              fs    |-> r.fs,
              names |-> IF r.err = <<>> THEN Append(acc.names, r.name)
                        ELSE acc.names,
              errs  |-> IF r.err # <<>>
                            THEN Append(acc.errs,
                                     ErrorsE(fileNames[i],
                                             "decrypter.DecryptMultipleFiles",
                                             "Decrypt", r.err).out)
                            ELSE acc.errs,
              runs  |-> acc.runs + 1], LAMBDA next :
        DecryptLoop(next, secretPhrase, fileNames, overwrite, removeSource, envs,
                    i + 1)))

\* Decrypter.DecryptMultipleFiles(secretPhrase, fileNames, overwrite,
\* removeSource), envs[i] the env of the i-th item
DecrypterDecryptMultipleFiles(d, fs, secretPhrase, fileNames, overwrite, removeSource, envs) ==
    DecryptLoop([d |-> d, fs |-> fs, names |-> <<>>, errs |-> <<>>, runs |-> 0],
                secretPhrase, fileNames, overwrite, removeSource, envs, 1)

(***************************************************************************)
(* The decrypt command (cmd/celo/decrypt.go).  secret is the phrase the    *)
(* command obtains, Nil when it obtains none; env is the env of every file *)
(* it decrypts.  stdout is what it prints, summary the last text printed.  *)
(***************************************************************************)
\* the matches of every pattern of src, one after the other
RECURSIVE GlobAll(_, _, _, _)
GlobAll(fs, order, src, exclude) ==
    IF src = <<>> THEN <<>>
    ELSE FileGlob(fs, order, Head(src), exclude)
         \o GlobAll(fs, order, Tail(src), exclude)

\* decrypt(src, args), the flags of args being decryptExclude, overwrite
\* and removeSource
decrypt(fs, order, src, decryptExclude, overwrite, removeSource, secret, env) ==
    LET With(v, F(_)) == CHOOSE x \in {F(r) : r \in {v}} : TRUE
    IN
    With(GlobAll(fs, order, src, decryptExclude), LAMBDA matches :
    With(formatGlobMatches(matches) \o <<"\n">>, LAMBDA listing :
    With(NewDecrypter, LAMBDA d0 :
    IF Len(matches) = 0
        THEN [d |-> d0, fs |-> fs, matches |-> matches, stdout |-> listing,
              summary |-> <<>>, err |-> <<>>, out |-> <<>>]
    ELSE IF secret = Nil
        THEN [d |-> d0, fs |-> fs, matches |-> matches, stdout |-> listing,
              summary |-> <<>>,
              err |-> ErrorsE(<<>>, "phrase.ReadPhrase", "PhraseOther",
                              Errorf("read")).out,
              out |-> <<>>]
    ELSE IF Len(matches) = 1
        THEN With(DecrypterDecryptFile(d0, fs, secret, matches[1], overwrite,
                                       removeSource, env), LAMBDA one :
             IF one.err # <<>>
                 THEN [d |-> one.d, fs |-> one.fs, matches |-> matches,
                       stdout |-> listing, summary |-> <<>>, err |-> one.err,
                       out |-> <<>>]
                 ELSE [d |-> one.d, fs |-> one.fs, matches |-> matches,
                       stdout |-> listing
                                  \o formatEncryptedFiles(<<one.name>>, <<>>),
                       summary |-> formatEncryptedFiles(<<one.name>>, <<>>),
                       err |-> <<>>, out |-> <<one.name>>])
    ELSE With(DecrypterDecryptMultipleFiles(d0, fs, secret, matches, overwrite,
                                            removeSource,
                                            [i \in 1..Len(matches) |-> env]),
              LAMBDA many :
         [d |-> many.d, fs |-> many.fs, matches |-> matches,
          stdout |-> listing \o formatDecryptedFiles(many.names, many.errs),
          summary |-> formatDecryptedFiles(many.names, many.errs),
          err |-> <<>>, out |-> many.names]))))

(***************************************************************************)
(* Inputs.                                                                 *)
(***************************************************************************)
Phrase(k) == [i \in 1..2 |-> 100 + k]

\* the secret phrases: two different ones
Phrases == {Phrase(1), Phrase(2)}

Plaintexts == {[i \in 1..n |-> 64 + i] : n \in 0..MaxPlainLen}

\* the characters of file names and extensions
Chars == {".", "a", "c"}

\* file names, the empty one included, and extensions for SetExtension
Names == UNION {[1..k -> Chars] : k \in 0..MaxNameLen}

Exts == UNION {[1..k -> Chars] : k \in 0..MaxExtLen}

\* capacities of the writers handed to Write (4096: a writer that never fails)
WriterCaps == {0, 10, 40, 64, 70, 80, 4096}

Header(sig, v, s, b, n, r) == sig \o <<v, s, b, n>> \o [i \in 1..20 |-> r]

badSignature == <<10, 26, 67, 69, 76, 79, 10, 27>>

\* headers: the current one, one with reserved bytes set, and ones that
\* break one or several of the validation rules or declare other sizes
Headers ==
    {Header(signatureHeader, 1, 32, 32, 12, 0),
     Header(signatureHeader, 1, 32, 32, 12, 9),
     Header(badSignature,    1, 32, 32, 12, 0),
     Header(badSignature,    2, 32, 7,  33, 0),
     Header(signatureHeader, 0, 32, 32, 12, 0),
     Header(signatureHeader, 2, 32, 7,  12, 0),
     Header(signatureHeader, 1, 32, 7,  12, 0),
     Header(signatureHeader, 1, 32, 16, 12, 0),
     Header(signatureHeader, 1, 32, 32, 33, 0),
     Header(signatureHeader, 1, 33, 32, 12, 0),
     Header(signatureHeader, 1, 16, 32, 12, 0)}

SourceTail == [i \in 1..61 |-> (7 * i) % 256]

SourceLens == {0, 5, 10, 20, 32, 40, 64, 70, 76, 93}

\* the envelope an Encrypter writes for phrase k and plaintext p when the
\* random source returns the bytes of seeds ss and ns
Envelope(k, p, ss, ns) ==
    EncrypterWrite(
        EncrypterEncrypt(NewEncrypter(FALSE), k, p,
                         RandBytes(SaltSize, ss), RandBytes(NonceSize, ns)).e,
        4096).sink

\* prepared envelopes: one, one that differs from it in the salt only, and
\* one for another phrase and plaintext under the salt of the first
EnvelopeA == Envelope(Phrase(1), <<65>>, 1, 1)

EnvelopeB == Envelope(Phrase(1), <<65>>, 2, 1)

EnvelopeC == Envelope(Phrase(2), <<>>, 1, 2)

Envelopes == {EnvelopeA, EnvelopeB, EnvelopeC}

\* streams for DecodeMetadata: whole and cut-off headers
Sources == {Take(h \o SourceTail, n) : h \in Headers, n \in SourceLens} \cup Envelopes

\* streams for Read: the envelopes, cut-off envelopes, and envelopes
\* whose header is replaced
ReadSources ==
    Envelopes
    \cup {Take(EnvelopeA, n) : n \in SourceLens}
    \cup {h \o SubSeq(EnvelopeA, 33, 32 + 44) : h \in Headers}

\* the streams whose reader is also tried with an I/O error at its end
FailingSources == {EnvelopeA, Take(EnvelopeA, 70), Take(EnvelopeA, 20)}

\* the paths of the directory the file calls work in, in the order in which
\* filepath.Glob lists them: a, a.celo, a.celo.celo, b, b.celo
FsOrder ==
    LET dot == <<".">> \o Extension
    IN  << <<"a">>, <<"a">> \o dot, <<"a">> \o dot \o dot, <<"b">>, <<"b">> \o dot >>

Paths == {FsOrder[i] : i \in DOMAIN FsOrder}

\* the file system whose paths, in the order of FsOrder, name `entries`
FsOf(entries) ==
    [p \in Paths |-> entries[CHOOSE i \in DOMAIN FsOrder : FsOrder[i] = p]]

\* the file systems the file calls start from: plaintext files, envelopes
\* (whole, cut off, and one under a name without the extension), targets
\* that are free, taken, directories, read-only or out of reach
InitFs ==
    LET N  == Entry("none", <<>>)
        P  == Entry("file", <<65>>)
        EA == Entry("file", EnvelopeA)
        EB == Entry("file", EnvelopeB)
        EC == Entry("file", EnvelopeC)
        D  == Entry("dir", <<>>)
        X  == Entry("denied", <<>>)
        F  == Entry("fault", <<>>)
    IN  {FsOf(t) : t \in {
            <<N, N, N, N, N>>,
            <<P, N, N, N, N>>,
            <<P, EB, N, P, N>>,
            <<P, D, N, N, N>>,
            <<P, X, N, N, N>>,
            <<P, F, N, N, N>>,
            <<P, Entry("readonly", EnvelopeA), N, P, N>>,
            <<N, EA, N, N, EB>>,
            <<EA, N, N, N, N>>,
            <<P, Entry("file", Take(EnvelopeA, 40)), N, N, EA>>,
            <<D, EA, N, P, EC>>,
            <<X, EA, N, P, N>>,
            <<F, EA, N, N, N>>,
            <<Entry("readonly", <<65>>), EA, N, N, N>>,
            <<N, EA, EA, N, N>>,
            <<N, D, N, D, EA>>}}

\* what the outside does during a call of EncryptFile: the random source
\* supplies a salt and a nonce or fails, the target takes everything, a part
\* or nothing, reading the source ends in an error
FileEnvs ==
    LET ok(s) == [rs |-> RandBytes(SaltSize, s), rn |-> RandBytes(NonceSize, s),
                  cap |-> 4096, ioErr |-> FALSE]
    IN  {ok(s) : s \in 1..NumSeeds}
        \cup {[ok(1) EXCEPT !.rs = RngFail], [ok(1) EXCEPT !.rn = RngFail],
              [ok(1) EXCEPT !.cap = 40], [ok(1) EXCEPT !.cap = 0],
              [ok(1) EXCEPT !.ioErr = TRUE]}

\* and during a call of DecryptFile, which draws no random bytes
DecryptEnvs == {v \in FileEnvs : v.rs = RandBytes(SaltSize, 1) /\ v.rn # RngFail}

\* and during the call on one item of EncryptMultipleFiles: all goes well, or
\* one of the steps fails
BatchEnvs == {v \in FileEnvs : v.cap # 40 /\ v.rs # RandBytes(SaltSize, 2)}

\* the files EncryptFile is called on: those whose target is one of Paths
EncryptSources == {p \in Paths : GetEncryptedFileName(NewEncrypter(FALSE), p) \in Paths}

\* the lists EncryptMultipleFiles and DecryptMultipleFiles are called on
EncryptLists ==
    {<<>>, <<FsOrder[1]>>, <<FsOrder[1], FsOrder[4]>>, <<FsOrder[4], FsOrder[1]>>,
     <<FsOrder[1], FsOrder[1]>>, <<FsOrder[1], FsOrder[2]>>,
     <<FsOrder[2], FsOrder[1]>>}

DecryptLists ==
    {<<>>, <<FsOrder[2]>>, <<FsOrder[2], FsOrder[5]>>, <<FsOrder[5], FsOrder[2]>>,
     <<FsOrder[2], FsOrder[2]>>, <<FsOrder[3], FsOrder[2]>>,
     <<FsOrder[1], FsOrder[2]>>}

\* patterns for file.Glob: *, a*, *.celo, a.celo, b
Patterns ==
    {<<"*">>, <<"a", "*">>, <<"*", ".">> \o Extension, FsOrder[2], FsOrder[4]}

\* ignore patterns: none (the default of the decrypt command), *.celo (the
\* default of the encrypt command), a*, b
IgnorePatterns == {<<>>, <<"*", ".">> \o Extension, <<"a", "*">>, FsOrder[4]}

\* the sources of the decrypt command: one pattern, or two file names
CmdSources == {<<p>> : p \in Patterns} \cup {<<FsOrder[2], FsOrder[5]>>}

\* what the terminal returns read after read: nothing, a phrase, or a
\* failure (Nil)
Scripts == UNION {[1..n -> {<<>>, Phrase(1), Phrase(2), Nil}] : n \in 0..MaxReads}

Retries == {0, 1, 2, 3}

\* the kinds errors.E and errors.Is are called with
ErrorKinds == {Other, "Open", "Encrypt"}

(***************************************************************************)
(* State.                                                                  *)
(*   e, d    the Encrypter and the Decrypter session                       *)
(*   ehist   "new"; "inited" once Init ran; "wiped" when Wipe ran since    *)
(*   dhist   "new"; "loaded" once a Read or Init succeeded; "wiped" when   *)
(*           Wipe ran since                                                *)
(*   eres    the last Encrypter call: its inputs and what it returned      *)
(*   dres    the last Decrypter (or DecodeMetadata) call, likewise         *)
(*   fs      the file system: what each path names                         *)
(*   fres    the last call on files (file.Create, file.Glob, EncryptFile,  *)
(*           DecryptFile, the batch calls, the commands): inputs, results  *)
(*   tty     the ReadAndConfirmPhrase call in progress, or its result      *)
(*   cur     the last errors.E call: its arguments and what it returned    *)
(***************************************************************************)
VARIABLES e, d, ehist, dhist, eres, dres, fs, fres, tty, cur

vars == <<e, d, ehist, dhist, eres, dres, fs, fres, tty, cur>>

xvars == <<fs, fres, tty, cur>>

evars == <<e, ehist, eres>>

dvars == <<d, dhist, dres>>

\* eres.rt: the call is a Write that directly follows a successful
\* Encrypt(phrase, plaintext), or a GetDecryptedFileName(name) whose name is
\* what the call before it, GetEncryptedFileName(orig), returned.
\* eres.rs, eres.rn: what the call's reads of the salt and of the nonce from
\* the random source returned (<<>> when the call made no such read);
\* eres.nonce: the nonce Cipher.Encrypt returned to the call;
\* eres.afterWipe: the call is an Init or Encrypt, the first since a Wipe of
\* the session.
ERes(op, err, n, sink, phrase, plaintext, out, rt) ==
    [op |-> op, err |-> err, n |-> n, sink |-> sink, phrase |-> phrase,
     plaintext |-> plaintext, out |-> out, rt |-> rt,
     rs |-> <<>>, rn |-> <<>>, nonce |-> <<>>, afterWipe |-> FALSE,
     name |-> <<>>, orig |-> <<>>]

\* dres.rt: the call is a Read, by a new Decrypter, of the envelope of
\* Encrypt(K, P) and Write, or a Decrypt that directly follows such a Read.
\* dres.tampered: likewise, for that envelope with one bit of its salt, nonce
\* or ciphertext changed.
\* dres.salt, dres.nonce: the salt and the nonce passed to an Init.
DRes(op, err, n, pos, src, ioErr, phrase, out, derived, m, rt, K, P) ==
    [op |-> op, err |-> err, n |-> n, pos |-> pos, src |-> src, ioErr |-> ioErr,
     phrase |-> phrase, out |-> out, derived |-> derived, m |-> m,
     rt |-> rt, K |-> K, P |-> P, tampered |-> FALSE,
     salt |-> <<>>, nonce |-> <<>>]

\* fres.pre: the file system before the call; fres.alone: for a batch call,
\* the name each item returns when EncryptFile or DecryptFile is called on it
\* alone, on the file system and the session the batch started from (<<>>
\* when that call fails)
FRes(op, pre) ==
    [op |-> op, pre |-> pre, name |-> <<>>, names |-> <<>>, pattern |-> <<>>,
     ignore |-> <<>>, overwrite |-> FALSE, removeSource |-> FALSE,
     phrase |-> <<>>, out |-> <<>>, outs |-> <<>>, err |-> <<>>, errs |-> <<>>,
     exist |-> FALSE, ok |-> FALSE, steps |-> <<>>, failed |-> "",
     target |-> <<>>, runs |-> 0, alone |-> <<>>, stdout |-> <<>>,
     summary |-> <<>>]

Tty(op, retries, script, r) ==
    [op |-> op, retries |-> retries, script |-> script, phrase |-> r.phrase,
     err |-> r.err, tries |-> r.tries, reads |-> r.reads]

Cur(op, entity, opName, kind, inner, r) ==
    [op |-> op, entity |-> entity, opName |-> opName, kind |-> kind,
     inner |-> inner, out |-> r.out, arg |-> r.arg]

Init ==
    /\ e = NewEncrypter(FALSE)
    /\ d = NewDecrypter
    /\ ehist = "new"
    /\ dhist = "new"
    /\ eres = ERes("New", NoErr, 0, <<>>, <<>>, <<>>, Nil, FALSE)
    /\ dres = DRes("New", NoErr, 0, 0, <<>>, FALSE, <<>>, Nil, FALSE, NilMetadata,
                   FALSE, <<>>, <<>>)
    /\ fs = [p \in Paths |-> Entry("none", <<>>)]
    /\ fres = FRes("none", fs)
    /\ tty = Tty("none", 0, <<>>, [phrase |-> Nil, err |-> NoErr, tries |-> 0, reads |-> 0])
    /\ cur = Cur("none", <<>>, "", Other, <<>>, [out |-> <<>>, arg |-> <<>>])

\* an Encrypter with the preserveKey flag set
InitPreserve ==
    /\ e = NewEncrypter(TRUE)
    /\ d = NewDecrypter
    /\ ehist = "new"
    /\ dhist = "new"
    /\ eres = ERes("New", NoErr, 0, <<>>, <<>>, <<>>, Nil, FALSE)
    /\ dres = DRes("New", NoErr, 0, 0, <<>>, FALSE, <<>>, Nil, FALSE, NilMetadata,
                   FALSE, <<>>, <<>>)
    /\ fs = [p \in Paths |-> Entry("none", <<>>)]
    /\ fres = FRes("none", fs)
    /\ tty = Tty("none", 0, <<>>, [phrase |-> Nil, err |-> NoErr, tries |-> 0, reads |-> 0])
    /\ cur = Cur("none", <<>>, "", Other, <<>>, [out |-> <<>>, arg |-> <<>>])

\* new sessions, and a file system of InitFs
InitFile ==
    /\ e = NewEncrypter(FALSE)
    /\ d = NewDecrypter
    /\ ehist = "new"
    /\ dhist = "new"
    /\ eres = ERes("New", NoErr, 0, <<>>, <<>>, <<>>, Nil, FALSE)
    /\ dres = DRes("New", NoErr, 0, 0, <<>>, FALSE, <<>>, Nil, FALSE, NilMetadata,
                   FALSE, <<>>, <<>>)
    /\ fs \in InitFs
    /\ fres = FRes("none", fs)
    /\ tty = Tty("none", 0, <<>>, [phrase |-> Nil, err |-> NoErr, tries |-> 0, reads |-> 0])
    /\ cur = Cur("none", <<>>, "", Other, <<>>, [out |-> <<>>, arg |-> <<>>])

(***************************************************************************)
(* Encrypter calls.  (Each call's result r is bound once, by \E r \in {..}.)*)
(***************************************************************************)
EncInit ==
    \E k \in Phrases, rnd \in Rng(SaltSize) :
        \E r \in {EncrypterInit(e, k, rnd)} :
            /\ e' = r.e
            /\ ehist' = "inited"
            /\ eres' = [ERes("Init", r.err, 0, <<>>, k, <<>>, Nil, FALSE)
                            EXCEPT !.rs = IF r.drew THEN rnd ELSE <<>>,
                                   !.afterWipe = (ehist = "wiped")]
            /\ UNCHANGED <<dvars, xvars>>

Encrypt ==
    \E k \in Phrases, p \in Plaintexts, rs \in Rng(SaltSize), rn \in Rng(GcmNonceSize) :
        \E r \in {EncrypterEncrypt(e, k, p, rs, rn)} :
            /\ e' = r.e
            /\ ehist' = "inited"
            /\ eres' = [ERes("Encrypt", r.err, 0, <<>>, k, p, r.ciphertext, FALSE)
                            EXCEPT !.rs = IF r.drewSalt THEN rs ELSE <<>>,
                                   !.rn = IF r.drewNonce THEN rn ELSE <<>>,
                                   !.nonce = r.nonce,
                                   !.afterWipe = (ehist = "wiped")]
            /\ UNCHANGED <<dvars, xvars>>

Write ==
    \E cap \in WriterCaps :
        \E r \in {EncrypterWrite(e, cap)}, rt \in {eres.op = "Encrypt" /\ eres.err = NoErr} :
            /\ eres' = ERes("Write", r.err, r.n, r.sink,
                            IF rt THEN eres.phrase ELSE <<>>,
                            IF rt THEN eres.plaintext ELSE <<>>, Nil, rt)
            /\ UNCHANGED <<e, ehist>>
            /\ UNCHANGED <<dvars, xvars>>

EncWipe ==
    /\ e' = Wipe(e)
    /\ ehist' = IF ehist = "new" THEN "new" ELSE "wiped"
    /\ eres' = ERes("Wipe", NoErr, 0, <<>>, <<>>, <<>>, Nil, FALSE)
    /\ UNCHANGED <<dvars, xvars>>

\* Config(SetExtension(ext))
Config ==
    \E ext \in Exts :
        /\ e' = SetExtension(e, ext)
        /\ eres' = ERes("Config", NoErr, 0, <<>>, <<>>, <<>>, Nil, FALSE)
        /\ UNCHANGED <<ehist, dvars, xvars>>

EncName ==
    \E name \in Names :
        /\ eres' = [ERes("GetEncryptedFileName", NoErr, 0, <<>>, <<>>, <<>>,
                         GetEncryptedFileName(e, name), FALSE)
                        EXCEPT !.name = name]
        /\ UNCHANGED <<e, ehist, dvars, xvars>>

\* GetDecryptedFileName of a name, or of the name that the call before,
\* GetEncryptedFileName, returned
DecName ==
    \E name \in Names \cup (IF eres.op = "GetEncryptedFileName" THEN {eres.out} ELSE {}) :
        \E rt \in {eres.op = "GetEncryptedFileName" /\ name = eres.out} :
            /\ eres' = [ERes("GetDecryptedFileName", NoErr, 0, <<>>, <<>>, <<>>,
                             GetDecryptedFileName(e, name), rt)
                            EXCEPT !.name = name,
                                   !.orig = IF rt THEN eres.name ELSE <<>>]
            /\ UNCHANGED <<e, ehist, dvars, xvars>>

(***************************************************************************)
(* Decrypter calls.                                                        *)
(***************************************************************************)
\* arguments of Decrypter.Init: salts and nonces of the configured size and
\* of another size, and a ciphertext sealed for the first phrase
InitSalts == {RandBytes(SaltSize, 1), RandBytes(SaltSize - 1, 1)}

InitNonces == {RandBytes(NonceSize, 1), RandBytes(NonceSize + 1, 1)}

DecInit ==
    \E k \in Phrases, s \in InitSalts, nn \in InitNonces :
        \E r \in {DecrypterInit(d, k, s, nn,
                      Seal(GenerateKey(Phrase(1), s, Aes256BlockSize), nn, <<65>>))} :
            /\ d' = r.d
            /\ dhist' = IF r.err = NoErr THEN "loaded" ELSE dhist
            /\ dres' = [DRes("Init", r.err, 0, 0, <<>>, FALSE, k, Nil, FALSE,
                             NilMetadata, FALSE, <<>>, <<>>)
                            EXCEPT !.salt = s, !.nonce = nn]
            /\ UNCHANGED <<evars, xvars>>

\* Read of a stream of S; the streams of F are also read with a reader that
\* fails at its end
ReadFrom(S, F) ==
    \E src \in S, ioErr \in BOOLEAN :
        /\ ioErr => src \in F
        /\ \E r \in {DecrypterRead(d, src, ioErr)} :
            /\ d' = r.d
            /\ dhist' = IF r.err = NoErr THEN "loaded" ELSE dhist
            /\ dres' = DRes("Read", r.err, r.n, r.pos, src, ioErr, <<>>, Nil, FALSE,
                            NilMetadata,
                            /\ d = NewDecrypter
                            /\ eres.op = "Write" /\ eres.err = NoErr /\ eres.rt
                            /\ src = eres.sink /\ ~ioErr,
                            eres.phrase, eres.plaintext)
            /\ UNCHANGED <<evars, xvars>>

\* Read of one of the prepared streams
Read == ReadFrom(ReadSources, FailingSources)

\* Read of what the last Write put into its writer
ReadSink == eres.op = "Write" /\ ReadFrom({eres.sink}, {eres.sink})

\* no call was made on the Decrypter since it was constructed
DecIdle == d = NewDecrypter /\ dres.op = "New"

\* the bit masks of a byte
TamperMasks == {1, 2, 4, 8, 16, 32, 64, 128}

\* byte x with the bit of mask m flipped
FlipBit(x, m) == IF (x \div m) % 2 = 1 THEN x - m ELSE x + m

\* Read, by a new Decrypter, of the envelope the last Write put out after a
\* successful Encrypt, with one bit of its salt, nonce or ciphertext flipped
ReadTampered ==
    /\ eres.op = "Write" /\ eres.err = NoErr /\ eres.rt
    /\ DecIdle
    /\ \E i \in (SignatureSize + 1)..Len(eres.sink), m \in TamperMasks :
         \E src \in {[eres.sink EXCEPT ![i] = FlipBit(@, m)]} :
          \E r \in {DecrypterRead(d, src, FALSE)} :
            /\ d' = r.d
            /\ dhist' = IF r.err = NoErr THEN "loaded" ELSE dhist
            /\ dres' = [DRes("Read", r.err, r.n, r.pos, src, FALSE, <<>>, Nil, FALSE,
                             NilMetadata, FALSE, eres.phrase, eres.plaintext)
                            EXCEPT !.tampered = TRUE]
            /\ UNCHANGED <<evars, xvars>>

Decrypt ==
    \E k \in Phrases :
        \E r \in {DecrypterDecrypt(d, k)} :
            /\ d' = r.d
            /\ dres' = [DRes("Decrypt", r.err, 0, 0, <<>>, FALSE, k, r.plaintext,
                             r.derived, NilMetadata,
                             dres.op = "Read" /\ dres.err = NoErr /\ dres.rt,
                             dres.K, dres.P)
                            EXCEPT !.tampered =
                                dres.op = "Read" /\ dres.err = NoErr /\ dres.tampered]
            /\ UNCHANGED <<dhist, evars, xvars>>

DecWipe ==
    /\ d' = Wipe(d)
    /\ dhist' = IF dhist = "new" THEN "new" ELSE "wiped"
    /\ dres' = DRes("Wipe", NoErr, 0, 0, <<>>, FALSE, <<>>, Nil, FALSE, NilMetadata,
                    FALSE, <<>>, <<>>)
    /\ UNCHANGED <<evars, xvars>>

\* the Decrypter is dropped and a new one constructed
DecNew ==
    /\ d' = NewDecrypter
    /\ dhist' = "new"
    /\ dres' = DRes("New", NoErr, 0, 0, <<>>, FALSE, <<>>, Nil, FALSE, NilMetadata,
                    FALSE, <<>>, <<>>)
    /\ UNCHANGED <<evars, xvars>>

\* a call of DecodeMetadata on its own
Decode ==
    \E src \in Sources, ioErr \in BOOLEAN :
        \E r \in {DecodeMetadata(src, ioErr)} :
            /\ dres' = DRes("DecodeMetadata", r.err, r.n, r.pos, src, ioErr, <<>>, Nil,
                            FALSE, r.m, FALSE, <<>>, <<>>)
            /\ UNCHANGED <<d, dhist, evars, xvars>>

(***************************************************************************)
(* Calls on files.  A call is made on a new session and on one of the file *)
(* systems of InitFs, as the commands make them.                           *)
(***************************************************************************)
Create ==
    /\ fres.op = "none"
    /\ \E name \in Paths, overwrite \in BOOLEAN :
        \E r \in {FileCreate(fs, name, overwrite)} :
            /\ fs' = r.fs
            /\ fres' = [FRes("Create", fs) EXCEPT !.name = name,
                            !.overwrite = overwrite, !.err = r.err,
                            !.exist = r.exist, !.ok = r.ok]
            /\ UNCHANGED <<evars, dvars, tty, cur>>

Glob ==
    /\ fres.op = "none"
    /\ \E pattern \in Patterns, ignorePattern \in IgnorePatterns :
        /\ fres' = [FRes("Glob", fs) EXCEPT !.pattern = pattern,
                        !.ignore = ignorePattern,
                        !.outs = FileGlob(fs, FsOrder, pattern, ignorePattern)]
        /\ UNCHANGED <<evars, dvars, fs, tty, cur>>

EncryptFile ==
    /\ fres.op = "none"
    /\ \E K \in Phrases, name \in EncryptSources, overwrite \in BOOLEAN,
          removeSource \in BOOLEAN, env \in FileEnvs :
        \E r \in {EncrypterEncryptFile(e, fs, K, name, overwrite, removeSource, env)} :
            /\ e' = r.e
            /\ fs' = r.fs
            /\ fres' = [FRes("EncryptFile", fs) EXCEPT !.name = name,
                            !.overwrite = overwrite, !.removeSource = removeSource,
                            !.phrase = K, !.out = r.name, !.err = r.err,
                            !.steps = r.steps, !.failed = r.failed,
                            !.target = r.target]
            /\ UNCHANGED <<ehist, eres, dvars, tty, cur>>

DecryptFile ==
    /\ fres.op = "none"
    /\ \E K \in Phrases, name \in Paths, overwrite \in BOOLEAN,
          removeSource \in BOOLEAN, env \in DecryptEnvs :
        \E r \in {DecrypterDecryptFile(d, fs, K, name, overwrite, removeSource, env)} :
            /\ d' = r.d
            /\ fs' = r.fs
            /\ fres' = [FRes("DecryptFile", fs) EXCEPT !.name = name,
                            !.overwrite = overwrite, !.removeSource = removeSource,
                            !.phrase = K, !.out = r.name, !.err = r.err,
                            !.steps = r.steps, !.failed = r.failed,
                            !.target = r.target]
            /\ UNCHANGED <<dhist, dres, evars, tty, cur>>

EncryptMultipleFiles ==
    /\ fres.op = "none"
    /\ \E fileNames \in EncryptLists, overwrite \in BOOLEAN, removeSource \in BOOLEAN :
        \E envs \in [1..Len(fileNames) -> BatchEnvs] :
            \E r \in {EncrypterEncryptMultipleFiles(e, fs, Phrase(1), fileNames,
                                                    overwrite, removeSource, envs)} :
                /\ e' = r.e
                /\ fs' = r.fs
                /\ fres' = [FRes("EncryptMultipleFiles", fs) EXCEPT
                                !.names = fileNames,
                                !.overwrite = overwrite,
                                !.removeSource = removeSource,
                                !.phrase = Phrase(1), !.outs = r.names,
                                !.errs = r.errs, !.runs = r.runs,
                                !.alone = [i \in 1..Len(fileNames) |->
                                    EncrypterEncryptFile(e, fs, Phrase(1),
                                        fileNames[i], overwrite, removeSource,
                                        envs[i]).name]]
                /\ UNCHANGED <<ehist, eres, dvars, tty, cur>>

DecryptMultipleFiles ==
    /\ fres.op = "none"
    /\ \E K \in Phrases, fileNames \in DecryptLists, overwrite \in BOOLEAN,
          removeSource \in BOOLEAN :
        \E envs \in [1..Len(fileNames) -> DecryptEnvs] :
            \E r \in {DecrypterDecryptMultipleFiles(d, fs, K, fileNames,
                                                    overwrite, removeSource, envs)} :
                /\ d' = r.d
                /\ fs' = r.fs
                /\ fres' = [FRes("DecryptMultipleFiles", fs) EXCEPT
                                !.names = fileNames,
                                !.overwrite = overwrite,
                                !.removeSource = removeSource,
                                !.phrase = K, !.outs = r.names,
                                !.errs = r.errs, !.runs = r.runs,
                                !.alone = [i \in 1..Len(fileNames) |->
                                    DecrypterDecryptFile(d, fs, K,
                                        fileNames[i], overwrite, removeSource,
                                        envs[i]).name]]
                /\ UNCHANGED <<dhist, dres, evars, tty, cur>>

\* the decrypt command; fres.names holds the files its patterns match
DecryptCmd ==
    /\ fres.op = "none"
    /\ \E src \in CmdSources, exclude \in IgnorePatterns, overwrite \in BOOLEAN,
          removeSource \in BOOLEAN, secret \in Phrases \cup {Nil},
          env \in DecryptEnvs :
        \E r \in {decrypt(fs, FsOrder, src, exclude, overwrite, removeSource,
                          secret, env)} :
            /\ d' = r.d
            /\ fs' = r.fs
            /\ fres' = [FRes("decrypt", fs) EXCEPT !.names = r.matches,
                            !.ignore = exclude, !.overwrite = overwrite,
                            !.removeSource = removeSource, !.phrase = secret,
                            !.outs = r.out, !.err = r.err, !.stdout = r.stdout,
                            !.summary = r.summary]
            /\ UNCHANGED <<dhist, dres, evars, tty, cur>>

(***************************************************************************)
(* ReadAndConfirmPhrase on a scripted terminal, and errors.E on an error   *)
(* that is nil, of another type, or the *Error the call before returned.   *)
(***************************************************************************)
Confirm ==
    /\ tty.op = "none"
    /\ \E retries \in Retries, script \in Scripts :
        tty' = Tty("ReadAndConfirmPhrase", retries, script,
                   ReadAndConfirmPhrase(retries, script))
    /\ UNCHANGED <<evars, dvars, fs, fres, cur>>

Wrap ==
    /\ \E entity \in {<<>>, FsOrder[1]}, op \in {"", "celo.Op"}, kind \in ErrorKinds,
          inner \in {<<>>, Errorf("cause"), cur.out} :
        \E r \in {ErrorsE(entity, op, kind, inner)} :
            /\ Len(r.out) <= MaxErrDepth
            /\ cur' = Cur("E", entity, op, kind, inner, r)
    /\ UNCHANGED <<evars, dvars, fs, fres, tty>>

(***************************************************************************)
(* Specifications.                                                         *)
(*   SpecEnc  one Encrypter, any sequence of its calls                     *)
(*   SpecDec  one Decrypter, any sequence of its calls on prepared sources *)
(*   SpecTamper  Encrypt and Write, then a new Decrypter that reads the    *)
(*            envelope, as written or with one bit changed, and decrypts   *)
(*   SpecName  a session whose extension is configured and whose file     *)
(*            name methods are called                                      *)
(*   SpecPreserve  one Encrypter whose preserveKey flag is set, any        *)
(*            sequence of its calls                                        *)
(*   SpecDecode  the decoding of prepared streams: DecodeMetadata on its   *)
(*            own, and Read by a new Decrypter                             *)
(*   Spec     an Encrypter and a Decrypter, the Decrypter reading what the *)
(*            Encrypter wrote.  The two sessions share no state, a call on *)
(*            one commutes with a call on the other: the calls made on a   *)
(*            Decrypter run before the next call on the Encrypter, and a   *)
(*            new Decrypter is constructed after them.                     *)
(***************************************************************************)
NextEnc == EncInit \/ Encrypt \/ Write \/ EncWipe

NextDec == DecInit \/ Read \/ Decrypt \/ DecWipe

NextDecode == Decode \/ (d = NewDecrypter /\ Read) \/ DecNew

Next ==
    \/ DecIdle /\ EncInit
    \/ DecIdle /\ Encrypt
    \/ DecIdle /\ Write
    \/ DecIdle /\ EncWipe
    \/ ReadSink
    \/ Decrypt
    \/ DecWipe
    \/ DecNew

NextTamper ==
    \/ DecIdle /\ Encrypt
    \/ DecIdle /\ Write
    \/ ReadSink
    \/ ReadTampered
    \/ Decrypt
    \/ DecNew

NextName == Config \/ EncName \/ DecName

SpecEnc == Init /\ [][NextEnc]_vars

SpecDec == Init /\ [][NextDec]_vars

SpecDecode == Init /\ [][NextDecode]_vars

Spec == Init /\ [][Next]_vars

SpecPreserve == InitPreserve /\ [][NextEnc]_vars

SpecTamper == Init /\ [][NextTamper]_vars

SpecName == Init /\ [][NextName]_vars

\* SpecFile: one call on files (file.Create, file.Glob, EncryptFile,
\* DecryptFile, a batch call or the decrypt command), made on new sessions
\* and on one of the file systems of InitFs
NextFile ==
    \/ Create
    \/ Glob
    \/ EncryptFile
    \/ DecryptFile
    \/ EncryptMultipleFiles
    \/ DecryptMultipleFiles
    \/ DecryptCmd

SpecFile == InitFile /\ [][NextFile]_vars

\* SpecPhrase: calls of ReadAndConfirmPhrase
NextPhrase == Confirm

SpecPhrase == Init /\ [][NextPhrase]_vars

\* SpecErrors: errors built by errors.E, one call on the result of the other
NextErrors == Wrap

SpecErrors == Init /\ [][NextErrors]_vars

(***************************************************************************)
(* Properties.                                                             *)
(***************************************************************************)
\* C1 (Spec): a new Decrypter that Reads the envelope put out by
\* Encrypt(K, P) and Write reads it without error, and its Decrypt with the
\* same phrase K returns exactly the plaintext P.
C1_RoundTrip ==
    /\ (dres.op = "Read" /\ dres.rt) => dres.err = NoErr
    /\ (dres.op = "Decrypt" /\ dres.rt /\ dres.phrase = dres.K) =>
           (dres.err = NoErr /\ dres.out = dres.P)

\* a round trip of a non-empty plaintext has completed
C1_Witness ==
    /\ dres.op = "Decrypt" /\ dres.rt /\ dres.phrase = dres.K
    /\ dres.P # <<>> /\ dres.out = dres.P

\* C2 (SpecEnc): a successful Write returns 32 + saltSize + nonceSize +
\* len(ciphertext), the total number of bytes it wrote.
C2_WriteReturnsTotal ==
    (eres.op = "Write" /\ eres.err = NoErr) =>
        /\ eres.n = SignatureSize + e.saltSize + e.nonceSize + Len(B(e.ciphertext))
        /\ eres.n = Len(eres.sink)

\* C3 (SpecEnc): the bytes of a successful Write are the 32-byte header, then
\* the salt at offset 32, the nonce at offset 32 + saltSize and the ciphertext
\* from offset 32 + saltSize + nonceSize to the end, with nothing in between.
C3_EnvelopeLayout ==
    (eres.op = "Write" /\ eres.err = NoErr) =>
        /\ eres.sink = MetadataBytes(e.metadata) \o B(e.salt) \o B(e.nonce)
                           \o B(e.ciphertext)
        /\ Take(eres.sink, SignatureSize) = MetadataBytes(e.metadata)
        /\ Take(Drop(eres.sink, SignatureSize), Len(B(e.salt))) = B(e.salt)
        /\ Take(Drop(eres.sink, SignatureSize + e.saltSize), Len(B(e.nonce))) = B(e.nonce)
        /\ Drop(eres.sink, SignatureSize + e.saltSize + e.nonceSize) = B(e.ciphertext)

\* C4 (SpecEnc): Write on a session on which Init never ran, or that was
\* wiped since, returns a NotReady error and writes nothing.
C4_WriteNotReady ==
    (eres.op = "Write" /\ ehist # "inited") =>
        (eres.err = E("NotReady") /\ eres.n = 0 /\ eres.sink = <<>>)

\* a Write was refused on a session wiped after its Init
C4_Witness ==
    eres.op = "Write" /\ ehist = "wiped" /\ eres.err = E("NotReady")

\* C5 (SpecEnc): Write on a session that Init has initialized, but on which
\* no Encrypt has stored a nonce and a ciphertext, fails and emits nothing.
C5_WriteNeedsEncrypt ==
    (eres.op = "Write" /\ ehist = "inited" /\ e.nonce = Nil /\ e.ciphertext = Nil) =>
        (eres.err # NoErr /\ eres.sink = <<>>)

\* C6 (SpecEnc): when a write to the sink fails, Write returns an Encode error
\* and the number of bytes flushed before the failure.
C6_WriteFailureCount ==
    (eres.op = "Write" /\ eres.err \notin {NoErr, E("NotReady")}) =>
        (eres.err = E("Encode") /\ eres.n = Len(eres.sink))

\* C7 (SpecDec): Decrypt on a session that no Read or Init has loaded, or
\* that was wiped since, returns a NotReady error and derives no key.
C7_DecryptNotReady ==
    (dres.op = "Decrypt" /\ dhist # "loaded") =>
        (dres.err = E("NotReady") /\ ~dres.derived /\ dres.out = Nil
         /\ d.cipher = NilCipher)

\* a Decrypt was refused on a wiped session that a failed Read had since
\* left a salt in
C7_Witness ==
    /\ dres.op = "Decrypt" /\ dhist = "wiped" /\ dres.err = E("NotReady")
    /\ d.salt # Nil

\* C8 (SpecDec): Read fails when fewer bytes follow the 32-byte header than
\* the salt size plus the nonce size that the header declares.
C8_ReadNeedsDeclaredBytes ==
    (/\ dres.op = "Read" /\ Len(dres.src) >= SignatureSize
     /\ Len(dres.src) - SignatureSize
            < dres.src[8 + saltSizeIndex] + dres.src[8 + nonceSizeIndex]) =>
        dres.err # NoErr

\* C9 (SpecDecode): a successful DecodeMetadata returns 32, and a successful
\* Read returns the number of bytes it consumed, 32 + saltSize + nonceSize +
\* len(ciphertext).
C9_DecodeReturnsConsumed ==
    /\ (dres.op = "DecodeMetadata" /\ dres.err = NoErr) =>
           (dres.n = SignatureSize /\ dres.n = dres.pos)
    /\ (dres.op = "Read" /\ dres.err = NoErr) =>
           /\ dres.n = dres.pos
           /\ dres.n = SignatureSize + d.saltSize + d.nonceSize + Len(B(d.ciphertext))

\* C10 (SpecDecode): DecodeMetadata returns a Metadata error when fewer than
\* 32 bytes can be read, else a Signature error when the first 8 bytes are
\* not the magic, else an Incompatible error when the version is outside
\* [MinVersion, MaxVersion]; in each of these cases it returns no metadata.
C10_DecodeOrder ==
    dres.op = "DecodeMetadata" =>
        LET src == dres.src
            short == Len(src) < SignatureSize
            badSig == Take(src, 8) # signatureHeader
            badVer == src[8 + versionIndex] < MinVersion
                          \/ src[8 + versionIndex] > MaxVersion
        IN  /\ short => dres.err = E("Metadata")
            /\ (~short /\ badSig) => dres.err = E("Signature")
            /\ (~short /\ ~badSig /\ badVer) => dres.err = E("Incompatible")
            /\ (short \/ badSig \/ badVer) => dres.m = NilMetadata

\* a header whose signature and version are both bad was decoded
C10_Witness ==
    /\ dres.op = "DecodeMetadata" /\ Len(dres.src) >= SignatureSize
    /\ Take(dres.src, 8) # signatureHeader
    /\ dres.src[8 + versionIndex] > MaxVersion
    /\ dres.err = E("Signature")

\* C11 (SpecDecode): a header with the right signature and a supported version
\* is rejected with a BlockSize error when its block-size byte is neither 16
\* nor 32, and with a NonceSize error when the block size is valid and its
\* nonce-size byte exceeds 32.
C11_SizeErrors ==
    (/\ dres.op = "DecodeMetadata" /\ Len(dres.src) >= SignatureSize
     /\ Take(dres.src, 8) = signatureHeader
     /\ dres.src[8 + versionIndex] >= MinVersion
     /\ dres.src[8 + versionIndex] <= MaxVersion) =>
        LET bs == dres.src[8 + blockSizeIndex]
            ns == dres.src[8 + nonceSizeIndex]
        IN  /\ bs \notin {16, 32} => dres.err = E("BlockSize")
            /\ (bs \in {16, 32} /\ ns > 32) => dres.err = E("NonceSize")

\* C12 (SpecEnc), as stated: when the random source cannot supply the nonce,
\* Cipher.Encrypt fails with a Nonce error and returns neither a nonce nor a
\* ciphertext.
C12_NonceErrorKind ==
    (eres.op = "Encrypt" /\ eres.rn = RngFail) =>
        (eres.err = E("Nonce") /\ eres.nonce = Nil /\ eres.out = Nil
         /\ e.ciphertext = Nil)

\* C12 (SpecEnc), amended: when the random source cannot supply the nonce,
\* Cipher.Encrypt fails with an Encrypt error and returns neither a nonce nor
\* a ciphertext (the session's ciphertext becomes nil, Encrypt returns nil).
C12_EncryptErrorKind ==
    (eres.op = "Encrypt" /\ eres.rn = RngFail) =>
        (eres.err = E("Encrypt") /\ eres.nonce = Nil /\ eres.out = Nil
         /\ e.ciphertext = Nil)

\* an Encrypt whose salt was drawn and whose read of the nonce failed
C12_Witness ==
    /\ eres.op = "Encrypt" /\ eres.rn = RngFail /\ eres.rs = e.salt
    /\ e.salt # Nil /\ eres.err = E("Encrypt")

\* C13 (SpecEnc): on an Encrypter without preserve-key every successful
\* Encrypt reads a salt and a nonce from the random source and stores exactly
\* the values it read, so two Encrypt calls store the same salt or the same
\* nonce only if the random source returned the same value twice.
C13_FreshSaltAndNonce ==
    (eres.op = "Encrypt" /\ eres.err = NoErr /\ ~e.preserveKey) =>
        /\ eres.rs \notin {<<>>, RngFail} /\ eres.rn \notin {<<>>, RngFail}
        /\ e.salt = eres.rs /\ e.nonce = eres.rn
        /\ Len(e.salt) = e.saltSize /\ Len(e.nonce) = e.nonceSize
        /\ e.cipher.key = GenerateKey(eres.phrase, eres.rs, e.blockSize)
        /\ e.ciphertext = Seal(e.cipher.key, eres.rn, eres.plaintext)

\* a successful Encrypt that stored the second salt and the second nonce of
\* the random source
C13_Witness ==
    /\ eres.op = "Encrypt" /\ eres.err = NoErr /\ ~e.preserveKey
    /\ e.salt = RandBytes(SaltSize, 2) /\ e.nonce = RandBytes(GcmNonceSize, 2)
    /\ eres.rs = e.salt /\ eres.rn = e.nonce

\* C14 (SpecPreserve): on an initialized Encrypter whose preserveKey flag is
\* set, an Init (with the same or another passphrase) returns no error,
\* leaves the session, so its salt and its cached cipher, as they were, and
\* makes no read of the random source.
C14_InitPreservesKey ==
    [][(e.initialized /\ e.preserveKey /\ eres'.op = "Init") =>
           (eres'.err = NoErr /\ e' = e /\ e'.salt = e.salt /\ e'.cipher = e.cipher
            /\ eres'.rs = <<>>)]_vars

\* an Init that read nothing from the random source, on a session holding a
\* salt, a cipher and a ciphertext
C14_Witness ==
    /\ eres.op = "Init" /\ eres.err = NoErr /\ eres.rs = <<>>
    /\ e.preserveKey /\ e.initialized
    /\ e.salt # Nil /\ e.cipher # NilCipher /\ e.ciphertext # Nil

\* C15 (SpecDec): a successful Read that loads a salt other than the one the
\* session held discards the cached cipher, and one that loads the salt held
\* keeps it; a Decrypt on a session without cached cipher derives its key
\* from the passphrase given and the salt held.
C15_ReadInvalidatesCipher ==
    [][/\ (dres'.op = "Read" /\ dres'.err = NoErr) =>
              /\ d'.salt = Take(Drop(dres'.src, SignatureSize), d.saltSize)
              /\ d'.salt # d.salt => d'.cipher = NilCipher
              /\ d'.salt = d.salt => d'.cipher = d.cipher
       /\ (dres'.op = "Decrypt" /\ d.initialized /\ d.cipher = NilCipher) =>
              /\ dres'.derived
              /\ d'.cipher.key = GenerateKey(dres'.phrase, d.salt, d.blockSize)
      ]_vars

\* a cached cipher has survived a successful Read
C15_Witness ==
    dres.op = "Read" /\ dres.err = NoErr /\ d.cipher # NilCipher

\* C16 (SpecTamper): when one bit of the salt, the nonce or the ciphertext of
\* a valid envelope is changed before Read, Decrypt with the passphrase the
\* envelope was encrypted with fails with an error and returns no plaintext.
C16_TamperDetected ==
    (dres.op = "Decrypt" /\ dres.tampered /\ dres.phrase = dres.K) =>
        (dres.err # NoErr /\ dres.out = Nil)

\* a Decrypt with the right passphrase was refused after a Read of an
\* envelope of a non-empty plaintext with one bit changed
C16_Witness ==
    /\ dres.op = "Decrypt" /\ dres.tampered /\ dres.phrase = dres.K
    /\ dres.P # <<>> /\ dres.err # NoErr

\* C17 (SpecTamper): a Decrypt that fails because the passphrase is wrong and
\* a Decrypt that fails because the salt, the nonce or the ciphertext was
\* changed return the same error kind, Decrypt.
C17_OneFailureKind ==
    /\ (dres.op = "Decrypt" /\ dres.rt /\ dres.phrase # dres.K) =>
           (dres.err = E("Decrypt") /\ dres.out = Nil)
    /\ (dres.op = "Decrypt" /\ dres.tampered) =>
           (dres.err = E("Decrypt") /\ dres.out = Nil)

\* a Decrypt of an unchanged envelope was refused for a wrong passphrase
C17_Witness ==
    /\ dres.op = "Decrypt" /\ dres.rt /\ ~dres.tampered /\ dres.phrase # dres.K
    /\ dres.err = E("Decrypt")

\* C18 (SpecPreserve): Wipe sets salt, nonce, ciphertext and cached cipher to
\* nil and the initialized flag to false and changes nothing else of the
\* session (sizes, extension); the next Init after a Wipe reads a new salt
\* from the random source and, when that succeeds, stores it with a cipher
\* derived from it, also with the preserveKey flag set.
C18_WipeThenInit ==
    [][/\ eres'.op = "Wipe" =>
              /\ e'.salt = Nil /\ e'.nonce = Nil /\ e'.ciphertext = Nil
              /\ e'.cipher = NilCipher /\ ~e'.initialized
              /\ e'.saltSize = e.saltSize /\ e'.blockSize = e.blockSize
              /\ e'.nonceSize = e.nonceSize /\ e'.ext = e.ext
              /\ e'.preserveKey = e.preserveKey /\ e'.metadata = e.metadata
       /\ (ehist = "wiped" /\ eres'.op = "Init") =>
              /\ eres'.rs # <<>>
              /\ e'.initialized
              /\ e'.salt = eres'.rs
              /\ eres'.err = NoErr =>
                     /\ e'.salt # Nil
                     /\ e'.cipher.key = GenerateKey(eres'.phrase, e'.salt, e.blockSize)
      ]_vars

\* a session with the preserveKey flag set was initialized, wiped and
\* initialized again
C18_Witness ==
    /\ eres.op = "Init" /\ eres.afterWipe /\ e.preserveKey
    /\ eres.err = NoErr /\ e.salt # Nil /\ e.salt = eres.rs

\* C19 (SpecName): GetEncryptedFileName(n) is n followed by the configured
\* extension, with a point put before the extension unless it starts with
\* one (n itself when no extension is configured), and for every non-empty
\* n GetDecryptedFileName of that result is n again.
C19_NameRoundTrip ==
    /\ eres.op = "GetEncryptedFileName" =>
           eres.out = eres.name \o
               (IF e.ext = <<>> THEN <<>>
                ELSE IF e.ext[1] = "." THEN e.ext ELSE <<".">> \o e.ext)
    /\ (eres.op = "GetDecryptedFileName" /\ eres.rt /\ eres.orig # <<>>) =>
           eres.out = eres.orig

\* the name of an encrypted file, made with an extension configured without
\* its point, was turned back into the name of the source
C19_Witness ==
    /\ eres.op = "GetDecryptedFileName" /\ eres.rt /\ eres.orig # <<>>
    /\ e.ext = <<"c">> /\ eres.name = eres.orig \o <<".", "c">>
    /\ eres.out = eres.orig

\* C20 (SpecName): GetDecryptedFileName removes the point-and-extension
\* suffix from a name exactly when the name ends with that suffix and is not
\* the suffix itself; any other name is returned unchanged.
C20_StripOnlySuffix ==
    eres.op = "GetDecryptedFileName" =>
        LET n   == eres.name
            suf == IF e.ext[1] = "." THEN e.ext ELSE <<".">> \o e.ext
        IN  IF /\ e.ext # <<>>
               /\ Len(n) > Len(suf)
               /\ SubSeq(n, Len(n) - Len(suf) + 1, Len(n)) = suf
                THEN eres.out \o suf = n
                ELSE eres.out = n

\* a name equal to the point-and-extension suffix was left as it is
C20_Witness ==
    /\ eres.op = "GetDecryptedFileName" /\ e.ext = <<"c">>
    /\ eres.name = <<".", "c">> /\ eres.out = eres.name

C22_CreatePolicy ==
    /\ fres.op = "Create" =>
        LET k == fres.pre[fres.name].kind
            fails(kind) == ErrorsIs(kind, fres.err) /\ ~fres.ok /\ fs = fres.pre
        IN  /\ (k \in {"file", "readonly"} /\ ~fres.overwrite) => fails("Exist")
            /\ k = "dir" => fails("IsDir")
            /\ k \in {"denied", "fault"} => fails("Permissions")
    /\ (fres.op \in {"EncryptFile", "DecryptFile"} /\ fres.failed = "Create") =>
           fs = fres.pre

\* Create was called on a directory with overwrite set and failed with IsDir
C22_Witness ==
    /\ fres.op = "Create" /\ fres.pre[fres.name].kind = "dir" /\ fres.overwrite
    /\ ErrorsIs("IsDir", fres.err) /\ fs = fres.pre

\* C23 (SpecFile): when writing the output of EncryptFile or DecryptFile
\* fails and the target did not exist before the call, the call returns an
\* error and the target does not exist after it.
C23_PartialTargetDeleted ==
    (/\ fres.op \in {"EncryptFile", "DecryptFile"}
     /\ fres.failed = "Write"
     /\ fres.pre[fres.target].kind = "none") =>
        /\ fres.err # <<>>
        /\ fs[fres.target].kind = "none"

\* the write of an envelope to a new file failed, and the file is gone
C23_Witness ==
    /\ fres.op = "EncryptFile" /\ fres.failed = "Write"
    /\ fres.pre[fres.target].kind = "none" /\ fs[fres.target].kind = "none"
    /\ fres.steps[Len(fres.steps)] = "RemoveTarget" /\ fres.err # <<>>

\* C24 (SpecFile): EncryptFile and DecryptFile remove the source file only
\* when removeSource is set and the call succeeded; when the call returns an
\* error the source file is still there with the content it had.
C24_SourceKeptOnError ==
    fres.op \in {"EncryptFile", "DecryptFile"} =>
        /\ (fres.pre[fres.name].kind # "none" /\ fs[fres.name].kind = "none") =>
               fres.removeSource /\ fres.err = <<>>
        /\ fres.err # <<>> => fs[fres.name] = fres.pre[fres.name]

\* C25 (SpecFile): file.Glob returns only files that exist and are no
\* directories, whatever the pattern and the ignorePattern, the empty one
\* included, and returns no path that matches a non-empty ignorePattern.
C25_GlobOnlyFiles ==
    fres.op = "Glob" =>
        \A i \in 1..Len(fres.outs) :
            /\ isFile(fs, fres.outs[i])
            /\ fres.ignore # <<>> => ~FileMatch(fres.ignore, fres.outs[i])

\* C26 (SpecPhrase): with retries N >= 2, ReadAndConfirmPhrase returns a
\* PhraseMismatch error only after its N-th attempt: a mismatch on an
\* earlier attempt is counted as a try and the phrase is asked for again.
C26_MismatchAfterLastTry ==
    (/\ tty.op = "ReadAndConfirmPhrase"
     /\ tty.retries >= 2
     /\ tty.err = E("PhraseMismatch")) => tty.tries = tty.retries

\* C27 (SpecPhrase): with retries 0, ReadAndConfirmPhrase returns no error
\* for an empty phrase or a confirmation that does not match: it ends with a
\* confirmed phrase that is not empty, or when a read from the terminal fails.
C27_UnlimitedRetries ==
    (tty.op = "ReadAndConfirmPhrase" /\ tty.retries = 0) =>
        \/ tty.err = NoErr /\ tty.phrase # Nil /\ Len(tty.phrase) > 0
        \/ tty.err = E("PhraseOther")

\* C28 (SpecFile): after it decrypted a single file the decrypt command
\* prints "1 file(s) decrypted. (0 failed)" and the list "Decrypted Files:"
\* with the decrypted name, the summary of a decryption of several files.
C28_SingleDecryptSummary ==
    (/\ fres.op = "decrypt"
     /\ Len(fres.names) = 1
     /\ fres.phrase # Nil
     /\ fres.err = <<>>) =>
        /\ Len(fres.outs) = 1
        /\ fres.summary = formatDecryptedFiles(fres.outs, <<>>)

\* C29 as stated (SpecFile): an error returned by EncryptFile or DecryptFile
\* is the first error met, no step running after the one that failed, and
\* names the operation and, as its Entity, the file being processed.
C29_ErrorNamesOpAndEntity ==
    (fres.op \in {"EncryptFile", "DecryptFile"} /\ fres.err # <<>>) =>
        LET steps == SelectSeq(fres.steps, LAMBDA x : x # "RemoveTarget")
        IN  /\ fres.failed # "" /\ steps[Len(steps)] = fres.failed
            /\ Head(fres.err).Op # ""
            /\ Head(fres.err).Entity = fres.name

\* C29 (SpecFile), amended: an error returned by EncryptFile or DecryptFile
\* is the first error met, no step running after the one that failed but the
\* removal of the target a failed write leaves; it names the operation that
\* failed, and carries no Entity.
C29_ErrorNamesOp ==
    (fres.op \in {"EncryptFile", "DecryptFile"} /\ fres.err # <<>>) =>
        LET steps == SelectSeq(fres.steps, LAMBDA x : x # "RemoveTarget")
        IN  /\ fres.failed # "" /\ steps[Len(steps)] = fres.failed
            /\ fres.out = <<>>
            /\ Head(fres.err).Op # ""
            /\ \A i \in 1..Len(fres.err) : fres.err[i].Entity = <<>>

\* EncryptFile failed while it wrote the envelope, and the error names
\* Encrypter.Write
C29_Witness ==
    /\ fres.op = "EncryptFile" /\ fres.failed = "Write"
    /\ Head(fres.err).Op = "encrypter.Write" /\ Head(fres.err).Kind = "Encode"
    /\ Head(fres.err).Entity = <<>>

\* C30 (SpecErrors): errors.E called with an *Error and with no Kind, or
\* with Other, returns an error of the Kind of that *Error, so that
\* errors.Is holds of the result for the kinds it holds of the *Error for;
\* the *Error passed is as it was before the call.
C30_KindPulledUp ==
    (cur.op = "E" /\ cur.kind = Other /\ IsError(cur.inner)) =>
        /\ Head(cur.out).Kind = Head(cur.inner).Kind
        /\ \A k \in ErrorKinds : ErrorsIs(k, cur.out) <=> ErrorsIs(k, cur.inner)
        /\ cur.arg = cur.inner

\* E was called without a Kind on an error of kind Open that named the same
\* file, and returned an error of kind Open
C30_Witness ==
    /\ cur.op = "E" /\ cur.kind = Other /\ IsError(cur.inner)
    /\ Head(cur.inner).Kind = "Open" /\ Head(cur.inner).Entity = cur.entity
    /\ cur.entity # <<>> /\ ErrorsIs("Open", cur.out) /\ cur.arg = cur.inner

(***************************************************************************)
(* Claims about the codec round trip, the frames of the Decrypter calls,   *)
(* the state of the Encrypter, and the results of the file calls.          *)
(***************************************************************************)
\* C31 (SpecDecode): for every stream whose 32-byte header DecodeMetadata
\* accepts, Bytes() of the decoded Metadata equals that header byte for
\* byte, the 20 reserved bytes included.
C31_BytesRoundTrip ==
    (dres.op = "DecodeMetadata" /\ dres.err = NoErr) =>
        MetadataBytes(dres.m) = Take(dres.src, SignatureSize)

\* C32 (SpecDec): a Decrypt, whether it succeeds or fails, leaves every
\* field of the session but the cached cipher as it was: salt, nonce,
\* ciphertext and the initialized flag are unchanged and no field takes the
\* recovered plaintext; the cipher, when it changes, is the one derived from
\* the phrase and the salt of the session.
C32_DecryptFrame ==
    [][dres'.op = "Decrypt" =>
        /\ d'.salt = d.salt /\ d'.nonce = d.nonce
        /\ d'.ciphertext = d.ciphertext /\ d'.initialized = d.initialized
        /\ d' = [d EXCEPT !.cipher = d'.cipher]
        /\ d'.cipher # d.cipher =>
              /\ d.cipher = NilCipher
              /\ d'.cipher.key = GenerateKey(dres'.phrase, d.salt, d.blockSize)]_vars

\* a Decrypt returned a plaintext of one byte or more and cached the cipher
\* it derived
C32_Witness ==
    /\ dres.op = "Decrypt" /\ dres.err = NoErr /\ dres.derived
    /\ dres.out # Nil /\ Len(dres.out) > 0
    /\ d.cipher # NilCipher /\ d.ciphertext # dres.out

\* C33 (SpecDec): Decrypter.Init returns a SaltSize error for a salt whose
\* length is not the configured salt size and, the salt being of that size,
\* a NonceSize error for a nonce whose length is not the configured nonce
\* size; in both cases salt, nonce, ciphertext, cached cipher and
\* initialized flag of the session are what they were before the call.
C33_InitRejectsSizes ==
    [][dres'.op = "Init" =>
        LET badSalt  == Len(dres'.salt) # d.saltSize
            badNonce == Len(dres'.nonce) # d.nonceSize
        IN  /\ badSalt => dres'.err = E("SaltSize")
            /\ (~badSalt /\ badNonce) => dres'.err = E("NonceSize")
            /\ (badSalt \/ badNonce) =>
                  /\ d'.salt = d.salt /\ d'.nonce = d.nonce
                  /\ d'.ciphertext = d.ciphertext /\ d'.cipher = d.cipher
                  /\ d'.initialized = d.initialized]_vars

\* a loaded session refused a nonce of another size and still holds the
\* salt, the nonce and the cipher it held
C33_Witness ==
    /\ dres.op = "Init" /\ dres.err = E("NonceSize")
    /\ Len(dres.salt) = d.saltSize /\ Len(dres.nonce) # d.nonceSize
    /\ d.initialized /\ d.cipher # NilCipher /\ d.nonce # dres.nonce

\* C34 (SpecEnc): in every state of an Encrypter, IsReady() implies that the
\* salt has the configured salt size and that the cipher derived from that
\* salt and a phrase is cached; an Init that fails does not leave the
\* session marked initialized.
C34_ReadyHasSaltAndCipher ==
    /\ IsReady(e) =>
          /\ e.salt # Nil /\ Len(e.salt) = e.saltSize
          /\ e.cipher # NilCipher
          /\ \E k \in Phrases :
                e.cipher.key = GenerateKey(k, e.salt, e.blockSize)
    /\ (eres.op = "Init" /\ eres.err # NoErr) => ~IsReady(e)

\* C35 (SpecEnc): the envelope a successful Write emits carries the salt,
\* the nonce and the ciphertext of one and the same successful Encrypt: the
\* ciphertext is the sealing of a plaintext, with the nonce emitted, under
\* the key derived from a phrase and the salt emitted.
C35_WriteEmitsOneEncrypt ==
    (eres.op = "Write" /\ eres.err = NoErr) =>
        /\ e.salt # Nil /\ e.nonce # Nil /\ e.ciphertext # Nil
        /\ \E k \in Phrases, p \in Plaintexts :
              eres.sink = MetadataBytes(e.metadata) \o e.salt \o e.nonce
                          \o Seal(GenerateKey(k, e.salt, e.blockSize), e.nonce, p)


\* C36 (SpecDec): a Read that returns an error leaves salt, nonce,
\* ciphertext, cached cipher and initialized flag of the session as they
\* were before the call.
C36_FailedReadKeepsSession ==
    [][(dres'.op = "Read" /\ dres'.err # NoErr) =>
        /\ d'.salt = d.salt /\ d'.nonce = d.nonce
        /\ d'.ciphertext = d.ciphertext /\ d'.cipher = d.cipher
        /\ d'.initialized = d.initialized]_vars


\* C37 (Spec): on a Decrypter that loaded, with Read, the envelope a Write
\* put out for Encrypt(K, P), and still holds its salt, nonce and
\* ciphertext, a Decrypt succeeds if and only if its phrase is K, whatever
\* Decrypt calls were made on the session before.
C37_DecryptIffRightPhrase ==
    (/\ dres.op = "Decrypt" /\ IsReady(d)
     /\ eres.op = "Write" /\ eres.err = NoErr /\ eres.rt
     /\ d.salt # Nil /\ d.nonce # Nil /\ d.ciphertext # Nil
     /\ MetadataBytes(d.metadata) \o d.salt \o d.nonce \o d.ciphertext = eres.sink) =>
        (dres.err = NoErr <=> dres.phrase = eres.phrase)

\* C38 (SpecFile): when EncryptFile or DecryptFile returns a name and no
\* error, whatever overwrite, removeSource and the source name are, a file
\* of that name exists afterwards and holds the output: the envelope of the
\* session for EncryptFile, the plaintext for DecryptFile.
C38_ReturnedNameHoldsOutput ==
    /\ (fres.op = "EncryptFile" /\ fres.err = <<>>) =>
          /\ fs[fres.out].kind = "file"
          /\ fs[fres.out].data = EncrypterWrite(e, 4096).sink
    /\ (fres.op = "DecryptFile" /\ fres.err = <<>>) =>
          /\ fs[fres.out].kind = "file"
          /\ fs[fres.out].data = DecrypterDecrypt(d, fres.phrase).plaintext

\* C39 (SpecFile): file.Create reports exist = TRUE exactly when a file of
\* the target name was there before the call (a regular file, writable or
\* not; FALSE when nothing had that name), and a target that was there
\* before EncryptFile or DecryptFile is still there when their write fails.
C39_ExistIffPresent ==
    /\ (fres.op = "Create" /\ fres.pre[fres.name].kind = "none") => ~fres.exist
    /\ (fres.op = "Create" /\ fres.pre[fres.name].kind \in {"file", "readonly"}) =>
          fres.exist
    /\ (/\ fres.op \in {"EncryptFile", "DecryptFile"}
        /\ fres.failed = "Write"
        /\ fres.pre[fres.target].kind = "file") =>
          fs[fres.target].kind = "file"

\* C40 (SpecPhrase): with retries = N >= 1, ReadAndConfirmPhrase returns
\* after at most N prompts for the phrase (and at most 2N reads), and it
\* returns a phrase without error only if that phrase is not empty and equals
\* the confirmation read right after it, in the same turn; with an error it
\* returns no phrase.
C40_BoundedPrompts ==
    (tty.op = "ReadAndConfirmPhrase" /\ tty.retries >= 1) =>
        /\ tty.tries <= tty.retries
        /\ tty.reads <= 2 * tty.retries
        /\ tty.err = NoErr =>
              /\ tty.phrase # Nil /\ Len(tty.phrase) > 0
              /\ tty.reads >= 2 /\ tty.reads <= Len(tty.script)
              /\ tty.script[tty.reads - 1] = tty.phrase
              /\ tty.script[tty.reads] = tty.phrase
        /\ tty.err # NoErr => tty.phrase = Nil

\* with two retries, the first prompt was answered with nothing and the
\* second with a phrase that its confirmation repeated
C40_Witness ==
    /\ tty.op = "ReadAndConfirmPhrase" /\ tty.retries = 2
    /\ tty.tries = 2 /\ tty.reads = 3 /\ tty.err = NoErr
    /\ tty.script[1] = <<>> /\ tty.phrase = Phrase(1)

=============================================================================
